---- MODULE Spec2Model ----
(***************************************************************************)
(* A model of the RNG library: the wide additive counter (Counter_1024),   *)
(* the mixer nasam, the buffered statistical engine Nasam1024, the         *)
(* ChaCha-based engine csprng and the Lemire bounded sampler.              *)
(*                                                                         *)
(* Machine words are WordBits wide instead of 64; every operation keeps    *)
(* the wrap-around of its width (% WordMod).  Rotation and shift amounts   *)
(* of the 64-bit code are scaled by WordBits/64.  Indices are 0-based as   *)
(* in the C++ source; a TLA+ sequence x holds limb i at x[i + 1].          *)
(***************************************************************************)
EXTENDS Integers, Sequences, FiniteSets, TLC

VARIABLES
    ctr,      \* counter specs: the Counter_1024 object under test
    ref,      \* counter specs: a second Counter_1024 object, the reference path
    stepA,    \* counter specs: first step vector
    stepB,    \* counter specs: second step vector
    cpc,      \* counter specs: how many operations ctr has had
    rpc,      \* counter specs: how many operations ref has had
    gen,      \* the Nasam1024 object: [counter, buffer, buffer_position]
    gpre,     \* the Nasam1024 object as it was before the last operation
    op,       \* engine specs: the last operation called
    arg,      \* engine specs: its argument
    out,      \* engine specs: the values it returned or wrote, in order
    err,      \* engine specs: the error it raised, "none" when it returned
    steps,    \* engine specs: the number of operations called so far
    cs,       \* the csprng object: [key, nonce, block_counter, buffer, word_index]
    cspre,    \* the csprng object as it was before the last operation
    origin,   \* the key, nonce and starting counter of the last construction or reseed
    pos,      \* outputs returned or skipped since then, while no call has failed
    clean,    \* no call has failed since then
    exh,      \* "key/nonce pair exhausted" since then: 0 never, 1 by the last call, 2 before it
    gens,     \* the block counters the last call had blocks generated for, in order
    reuse,    \* the starting counter has had a second block generated since then
    ub,       \* one call of unbiased(lo, hi): its arguments, its locals and where it stands
    eng1,      \* two-object specs: the first csprng object
    eng2,      \* two-object specs: the second csprng object
    pre1      \* two-object specs: the first object as it was before the last operation

cvars == <<ctr, ref, stepA, stepB, cpc, rpc>>

hvars == <<op, arg, out, err, steps>>

gvars == <<gen, gpre>>

svars == <<cs, cspre, origin, pos, clean, exh, gens, reuse>>

pvars == <<eng1, eng2, pre1>>

vars == <<cvars, hvars, gvars, svars, ub, pvars>>

---------------------------------------------------------------------------
(* Bounds of the model *)

\* Width of a machine word (uint64_t in the program).
WordBits == 5

\* Number of limbs of the counter whose whole cycle is walked (16 in the program).
PeriodLimbs == 2

\* Operations called on one engine object after its construction.
MaxSteps == 2

\* Largest argument given to discard.
MaxDiscard == 17

\* the bits of the substitute for the 64-bit block counter of csprng
CounterBits == 3

---------------------------------------------------------------------------
(* Program constants *)

\* Nasam1024::COUNTERSIZE, the limbs of Counter_1024.
COUNTERSIZE == 16

\* Nasam1024::BUFFERSIZE, the output words per counter step.
BUFFERSIZE == 8

\* Low 16 bits of the golden-ratio constant 0x9e3779b97f4a7c15.
INC == 31765

\* Low 16 bits of nasam's multiplier 0x9E6F1D9BB2D6C165.
NASAM_MUL1 == 49509

\* Low 16 bits of nasam's multiplier 0x9FB21C651E98DF25.
NASAM_MUL2 == 57125

\* Low 16 bits of SplitMix64::INCREMENT 0x9e3779b97f4a7c15.
SM_INCREMENT == 31765

\* Low 16 bits of SplitMix64::MUL1 0xbf58476d1ce4e5b9.
SM_MUL1 == 58809

\* fast::BUFFER_SIZE
FAST_BUFFER_SIZE == 8

\* Low 16 bits of fast::INCREMENT 0x2d358dccaa6c78a5.
FAST_INCREMENT == 30885

\* Low 16 bits of fast::MIX 0x8bb84b93962eacc9.
FAST_MIX == 44233

\* Low 16 bits of the seed mixing constant 0x9e3779b97f4a7c15 of fast(seed).
FAST_SEED_MIX == 31765

\* Low 16 bits of SplitMix64::MUL2 0x94d049bb133111eb.
SM_MUL2 == 4587

\* sizeof(uint64_t): the bytes of one output word.
WORDBYTES == 8

\* csprng::words_per_block, the 64-bit words of one ChaCha block.
WORDS_PER_BLOCK == 8

\* The 32-bit words of a ChaChaCore::KEY.
KEY_WORDS == 8

\* The 32-bit words of a ChaChaCore::NONCE.
NONCE_WORDS == 2

---------------------------------------------------------------------------
(* Word arithmetic *)

RECURSIVE Pow2(_)
Pow2(n) == IF n <= 0 THEN 1 ELSE 2 * Pow2(n - 1)

WordMod == Pow2(WordBits)

Word == 0 .. (WordMod - 1)

WORD_MAX == WordMod - 1

\* A rotation or shift amount of the 64-bit code, scaled to WordBits.
Scaled(r) == (r * WordBits) \div 64

RECURSIVE XorBits(_, _, _)
XorBits(a, b, n) ==
    IF n = 0 THEN 0
    ELSE ((a + b) % 2) + 2 * XorBits(a \div 2, b \div 2, n - 1)

Xor(a, b) == XorBits(a, b, WordBits)

RECURSIVE OrBits(_, _, _)
OrBits(a, b, n) ==
    IF n = 0 THEN 0
    ELSE (IF a % 2 = 1 \/ b % 2 = 1 THEN 1 ELSE 0) + 2 * OrBits(a \div 2, b \div 2, n - 1)

Or(a, b) == OrBits(a, b, WordBits)

\* std::rotr on a word
rotr(v, r) ==
    LET k == r % WordBits
    IN ((v \div Pow2(k)) + (v % Pow2(k)) * Pow2(WordBits - k)) % WordMod

shr(v, r) == v \div Pow2(r)

\* 64 x 64 -> 128 multiplication: the low and the high word of the product
umul128(a, b) == [lo |-> (a * b) % WordMod, hi |-> (a * b) \div WordMod]

---------------------------------------------------------------------------
(* The mixer *)

nasam(v) ==
    LET v1 == (v * NASAM_MUL1) % WordMod
        v2 == Xor(v1, rotr(v1, Scaled(26)))
        v3 == (v2 * NASAM_MUL1) % WordMod
        v4 == Xor(v3, Xor(rotr(v3, Scaled(47)), rotr(v3, Scaled(21))))
        v5 == (v4 * NASAM_MUL2) % WordMod
    IN Xor(v5, shr(v5, Scaled(28)))

\* nasam tabulated once over all words
nasamTable == [v \in Word |-> nasam(v)]

---------------------------------------------------------------------------
(* Counter_1024.  A counter object is [state, increment], two sequences of *)
(* limbs; the loops over the 16 limbs run over Len(state) limbs, so that   *)
(* the same code is also run on a counter of PeriodLimbs limbs.            *)

\* The carry loop of add_carry: limb `index` has just wrapped.
RECURSIVE carry_up(_, _)
carry_up(x, index) ==
    LET i == index + 1
    IN IF i >= Len(x) THEN x
       ELSE LET v == (x[i + 1] + 1) % WordMod
                y == [x EXCEPT ![i + 1] = v]
            IN IF v # 0 THEN y ELSE carry_up(y, i)

add_carry(x, incr, index) ==
    IF index >= Len(x) THEN x
    ELSE LET v == (x[index + 1] + incr) % WordMod
             y == [x EXCEPT ![index + 1] = v]
         IN IF v < incr THEN carry_up(y, index) ELSE y

RECURSIVE increment_limbs(_, _)
increment_limbs(n, prev) ==
    IF n = 0 THEN <<>>
    ELSE <<nasamTable[prev]>> \o increment_limbs(n - 1, nasamTable[prev])

\* initialize_increment starting from an even constant (mutant)
initialize_increment_even(n) ==
    <<(INC - 1) % WordMod>> \o increment_limbs(n - 1, (INC - 1) % WordMod)

initialize_increment(n) == <<INC % WordMod>> \o increment_limbs(n - 1, INC % WordMod)

ZeroLimbs(n) == [i \in 1 .. n |-> 0]

\* Counter_1024(): state{0}, then initialize_increment()
Counter_new(n) == [state |-> ZeroLimbs(n), increment |-> initialize_increment(n)]

RECURSIVE increment_loop(_, _, _)
increment_loop(state, increment, i) ==
    IF i >= Len(state) THEN state
    ELSE increment_loop(add_carry(state, increment[i + 1], i), increment, i + 1)

\* prefix operator++ : state += increment
increment_once(c) == [c EXCEPT !.state = increment_loop(c.state, c.increment, 0)]

RECURSIVE advance_loop(_, _, _, _)
advance_loop(state, increment, nblocks, i) ==
    IF i >= Len(state) THEN state
    ELSE LET p  == umul128(increment[i + 1], nblocks)
             s1 == add_carry(state, p.lo, i)
             s2 == IF i <= Len(state) - 2 THEN add_carry(s1, p.hi, i + 1) ELSE s1
         IN advance_loop(s2, increment, nblocks, i + 1)

\* operator+= adding only the low word of every product (mutant)
RECURSIVE advance_loop_low(_, _, _, _)
advance_loop_low(state, increment, nblocks, i) ==
    IF i >= Len(state) THEN state
    ELSE advance_loop_low(add_carry(state, umul128(increment[i + 1], nblocks).lo, i),
                          increment, nblocks, i + 1)

advance_low_products(c, nblocks) ==
    IF nblocks = 0 THEN c
    ELSE IF nblocks = 1 THEN increment_once(c)
    ELSE [c EXCEPT !.state = advance_loop_low(c.state, c.increment, nblocks, 0)]

\* operator+=(nblocks) : state += nblocks * increment
advance(c, nblocks) ==
    IF nblocks = 0 THEN c
    ELSE IF nblocks = 1 THEN increment_once(c)
    ELSE [c EXCEPT !.state = advance_loop(c.state, c.increment, nblocks, 0)]

\* the inner loop of big_jump with the high product word added one limb too low (mutant)
RECURSIVE big_jump_inner_low_hi(_, _, _, _, _)
big_jump_inner_low_hi(temp, increment, step, i, j) ==
    IF j >= Len(temp) THEN temp
    ELSE IF i + j < Len(temp)
         THEN LET p  == umul128(increment[j + 1], step[i + 1])
                  t1 == add_carry(temp, p.lo, i + j)
                  t2 == add_carry(t1, p.hi, i + j)
              IN big_jump_inner_low_hi(t2, increment, step, i, j + 1)
         ELSE big_jump_inner_low_hi(temp, increment, step, i, j + 1)

RECURSIVE big_jump_inner(_, _, _, _, _)
big_jump_inner(temp, increment, step, i, j) ==
    IF j >= Len(temp) THEN temp
    ELSE IF i + j < Len(temp)
         THEN LET p  == umul128(increment[j + 1], step[i + 1])
                  t1 == add_carry(temp, p.lo, i + j)
                  t2 == add_carry(t1, p.hi, i + j + 1)
              IN big_jump_inner(t2, increment, step, i, j + 1)
         ELSE big_jump_inner(temp, increment, step, i, j + 1)

\* the outer loop of big_jump passing over limb 0 of the step (mutant)
RECURSIVE big_jump_outer_skips_low(_, _, _, _)
big_jump_outer_skips_low(temp, increment, step, i) ==
    IF i >= Len(temp) THEN temp
    ELSE IF step[i + 1] = 0 \/ i = 0
         THEN big_jump_outer_skips_low(temp, increment, step, i + 1)
         ELSE big_jump_outer_skips_low(big_jump_inner(temp, increment, step, i, 0),
                                       increment, step, i + 1)

RECURSIVE big_jump_outer(_, _, _, _)
big_jump_outer(temp, increment, step, i) ==
    IF i >= Len(temp) THEN temp
    ELSE IF step[i + 1] = 0
         THEN big_jump_outer(temp, increment, step, i + 1)
         ELSE big_jump_outer(big_jump_inner(temp, increment, step, i, 0),
                             increment, step, i + 1)

\* big_jump(step) : state += step * increment, both of Len(state) limbs
Counter_big_jump(c, step) ==
    [c EXCEPT !.state = big_jump_outer(c.state, c.increment, step, 0)]

\* Counter_1024::operator==
Counter_eq(a, b) == a.state = b.state

---------------------------------------------------------------------------
(* SplitMix64, the seed expander *)

\* SplitMix64::operator(): the new state and the value returned
SplitMix64_next(state) ==
    LET st == (state + SM_INCREMENT) % WordMod
        z1 == (Xor(st, shr(st, Scaled(30))) * SM_MUL1) % WordMod
        z2 == (Xor(z1, shr(z1, Scaled(27))) * SM_MUL2) % WordMod
    IN [state |-> st, value |-> Xor(z2, shr(z2, Scaled(31)))]

\* the first n values of SplitMix64(state)
RECURSIVE SplitMix64_values(_, _)
SplitMix64_values(state, n) ==
    IF n = 0 THEN <<>>
    ELSE LET r == SplitMix64_next(state)
         IN <<r.value>> \o SplitMix64_values(r.state, n - 1)

---------------------------------------------------------------------------
(* Nasam1024.  An engine object is [counter, buffer, buffer_position].  An  *)
(* operation yields [g |-> the object after it, out |-> what it returned].  *)

\* refill_buffer mixing the lower 8 limbs of the counter (mutant)
refill_buffer_low_limbs(g) ==
    LET c == increment_once(g.counter)
    IN [counter |-> c,
        buffer |-> [i \in 1 .. BUFFERSIZE |-> nasamTable[c.state[i]]],
        buffer_position |-> 0]

refill_buffer(g) ==
    LET c == increment_once(g.counter)
    IN [counter |-> c,
        buffer |-> [i \in 1 .. BUFFERSIZE |-> nasamTable[c.state[i + BUFFERSIZE]]],
        buffer_position |-> 0]

is_buffer_empty(g) == g.buffer_position = BUFFERSIZE

\* the cursor indexes the buffer, or marks it empty
CursorInRange(g) == g.buffer_position \in 0 .. BUFFERSIZE

\* operator()() with the cursor in [0, 8]
Nasam_next(g) ==
    LET g1 == IF is_buffer_empty(g) THEN refill_buffer(g) ELSE g
    IN [g |-> [g1 EXCEPT !.buffer_position = g1.buffer_position + 1],
        out |-> g1.buffer[g1.buffer_position + 1]]

\* static_cast<uint32_t>: the low half of a word
LowHalf(v) == v % Pow2(WordBits \div 2)

Nasam_draw32(g) ==
    LET r == Nasam_next(g) IN [g |-> r.g, out |-> LowHalf(r.out)]

\* byte k of a word, and the bytes of a buffer in memory order
ByteOf(w, k) == <<w, k>>

BufferBytes(buffer, n) ==
    [j \in 1 .. n |-> ByteOf(buffer[((j - 1) \div WORDBYTES) + 1], (j - 1) % WORDBYTES)]

\* bulk copying its final partial chunk without another refill (mutant)
RECURSIVE Nasam_bulk_loop_stale_tail(_, _, _)
Nasam_bulk_loop_stale_tail(g, n, written) ==
    LET bufsize == BUFFERSIZE * WORDBYTES
    IN IF n >= bufsize
       THEN LET g1 == refill_buffer(g)
            IN Nasam_bulk_loop_stale_tail(g1, n - bufsize,
                                          written \o BufferBytes(g1.buffer, bufsize))
       ELSE [g |-> [g EXCEPT !.buffer_position = BUFFERSIZE],
             out |-> written \o BufferBytes(g.buffer, n)]

\* bulk(x, n): the object after it and the bytes written to x
RECURSIVE Nasam_bulk_loop(_, _, _)
Nasam_bulk_loop(g, n, written) ==
    LET bufsize == BUFFERSIZE * WORDBYTES
    IN IF n >= bufsize
       THEN LET g1 == refill_buffer(g)
            IN Nasam_bulk_loop(g1, n - bufsize, written \o BufferBytes(g1.buffer, bufsize))
       ELSE IF n > 0
            THEN LET g1 == refill_buffer(g)
                 IN [g |-> [g1 EXCEPT !.buffer_position = BUFFERSIZE],
                     out |-> written \o BufferBytes(g1.buffer, n)]
            ELSE [g |-> [g EXCEPT !.buffer_position = BUFFERSIZE], out |-> written]

Nasam_bulk(g, n) == Nasam_bulk_loop(g, n, <<>>)

\* discard that forgets to take the outputs left in the buffer off n (mutant)
Nasam_discard_no_subtract(g, n) ==
    LET remaining_in_buffer == (BUFFERSIZE - g.buffer_position) % WordMod
    IN IF n <= remaining_in_buffer
       THEN [g EXCEPT !.buffer_position = g.buffer_position + n]
       ELSE LET full_blocks_to_skip == n \div BUFFERSIZE
                outputs_in_final_block == n % BUFFERSIZE
                g1 == IF full_blocks_to_skip > 0
                      THEN [g EXCEPT !.counter = advance(g.counter, full_blocks_to_skip)]
                      ELSE g
            IN [refill_buffer(g1) EXCEPT !.buffer_position = outputs_in_final_block]

\* discard that leaves the buffer empty instead of refilling when no output of the
\* final block is skipped (mutant)
Nasam_discard_lazy_refill(g, n) ==
    LET remaining_in_buffer == (BUFFERSIZE - g.buffer_position) % WordMod
    IN IF n <= remaining_in_buffer
       THEN [g EXCEPT !.buffer_position = g.buffer_position + n]
       ELSE LET n1 == n - remaining_in_buffer
                full_blocks_to_skip == n1 \div BUFFERSIZE
                outputs_in_final_block == n1 % BUFFERSIZE
                g1 == IF full_blocks_to_skip > 0
                      THEN [g EXCEPT !.counter = advance(g.counter, full_blocks_to_skip)]
                      ELSE g
            IN IF outputs_in_final_block = 0
               THEN [g1 EXCEPT !.buffer_position = BUFFERSIZE]
               ELSE [refill_buffer(g1) EXCEPT !.buffer_position = outputs_in_final_block]

\* discard(n)
Nasam_discard(g, n) ==
    LET remaining_in_buffer == (BUFFERSIZE - g.buffer_position) % WordMod
    IN IF n <= remaining_in_buffer
       THEN [g EXCEPT !.buffer_position = g.buffer_position + n]
       ELSE LET n1 == n - remaining_in_buffer
                full_blocks_to_skip == n1 \div BUFFERSIZE
                outputs_in_final_block == n1 % BUFFERSIZE
                g1 == IF full_blocks_to_skip > 0
                      THEN [g EXCEPT !.counter = advance(g.counter, full_blocks_to_skip)]
                      ELSE g
            IN [refill_buffer(g1) EXCEPT !.buffer_position = outputs_in_final_block]

\* big_jump that also marks the buffer empty (mutant)
Nasam_big_jump_invalidates(g, step) ==
    [g EXCEPT !.counter = Counter_big_jump(g.counter, step), !.buffer_position = BUFFERSIZE]

Nasam_big_jump(g, step) == [g EXCEPT !.counter = Counter_big_jump(g.counter, step)]

Unit16(k) == [i \in 1 .. COUNTERSIZE |-> IF i = k + 1 THEN 1 ELSE 0]

Nasam_jump64(g) == Nasam_big_jump(g, Unit16(1))

Nasam_jump128(g) == Nasam_big_jump(g, Unit16(2))

Nasam_jump192(g) == Nasam_big_jump(g, Unit16(3))

Nasam_jump256(g) == Nasam_big_jump(g, Unit16(4))

Nasam_jump(g) == Nasam_jump128(g)

Nasam_long_jump(g) == Nasam_jump256(g)

\* 64-bit seeds given to the seeding operations
Seeds == {0, 11}

\* the counter reseed builds from a seed: a new Counter_1024, moved by big_jump
\* over the 16 values of SplitMix64(seed); tabulated once over Seeds
SeededCounter ==
    [seed \in Seeds |->
        Counter_big_jump(Counter_new(COUNTERSIZE), SplitMix64_values(seed, COUNTERSIZE))]

\* reseed that keeps the cursor where it was (mutant)
Nasam_reseed_keeps_cursor(g, seed) == [g EXCEPT !.counter = SeededCounter[seed]]

\* reseed(seed)
Nasam_reseed(g, seed) ==
    [counter |-> SeededCounter[seed], buffer |-> g.buffer, buffer_position |-> BUFFERSIZE]

\* A new object before its constructor body runs: the counter default-constructed,
\* the buffer not initialized (it holds whatever `garbage` the memory held), the
\* cursor at its default member initializer.
Nasam_uninitialized(garbage) ==
    [counter |-> Counter_new(COUNTERSIZE), buffer |-> garbage, buffer_position |-> BUFFERSIZE]

\* Nasam1024(): every counter limb drawn from the random device
Nasam_ctor_default(limbs, garbage) ==
    [Nasam_uninitialized(garbage) EXCEPT !.counter.state = limbs]

\* Nasam1024(uint64_t seed)
Nasam_ctor_seed(seed, garbage) == Nasam_reseed(Nasam_uninitialized(garbage), seed)

\* Nasam1024(const std::array<uint64_t, 16>& initial_state)
Nasam_ctor_array(initial_state, garbage) ==
    [Nasam_uninitialized(garbage) EXCEPT !.counter = Counter_big_jump(@, initial_state)]

\* seed(uint64_t s): *this = Nasam1024(s)
Nasam_seed(g, s, garbage) == Nasam_ctor_seed(s, garbage)

\* seed(): *this = Nasam1024()
Nasam_seed_default(g, limbs, garbage) == Nasam_ctor_default(limbs, garbage)

Nasam_set_counter(g, initial_counter) == [g EXCEPT !.counter = initial_counter]

Nasam_get_state(g) == g

Nasam_set_state(g, s) ==
    [counter |-> s.counter, buffer |-> s.buffer, buffer_position |-> s.buffer_position]

\* operator== of two engines
Nasam_eq(lhs, rhs) ==
    /\ lhs.buffer_position = rhs.buffer_position
    /\ Counter_eq(lhs.counter, rhs.counter)
    /\ lhs.buffer = rhs.buffer

---------------------------------------------------------------------------
(* csprng.  An engine object is [key, nonce, block_counter, buffer,         *)
(* word_index]; block_counter has CounterBits bits.  The block permutation is *)
(* outside the program: permute_block(key, nonce, counter) stands for the   *)
(* 64 bytes it produces, and u64(block, i) for word i of a block.  An       *)
(* operation yields [cs |-> the object after it, out |-> what it returned,  *)
(* err |-> the error it threw or "none", gens |-> the counters it had       *)
(* blocks generated for].                                                   *)

\* the values of block_counter
CounterMod == Pow2(CounterBits)

\* UINT64_MAX, as the largest block counter
COUNTER_MAX == CounterMod - 1

\* ChaChaCore::build_state and ChaChaCore::permute_block
permute_block(key, nonce, counter) == [key |-> key, nonce |-> nonce, counter |-> counter]

\* Block64{}: 64 zero bytes
ZeroBlock == [key |-> <<>>, nonce |-> <<>>, counter |-> 0]

\* buffer.u64[i]
u64(block, i) == [block |-> block, index |-> i]

\* refill_buffer that counts before it generates (mutant)
csprng_refill_buffer_counts_first(c) ==
    LET c1 == [c EXCEPT !.buffer = permute_block(c.key, c.nonce, (c.block_counter + 1) % CounterMod),
                        !.word_index = 0,
                        !.block_counter = (c.block_counter + 1) % CounterMod]
    IN [cs |-> c1,
        out |-> <<>>,
        err |-> IF c1.block_counter = 0 THEN "exhausted" ELSE "none",
        gens |-> <<(c.block_counter + 1) % CounterMod>>]

\* refill_buffer(): the throw comes after the buffer, the index and the counter are written
csprng_refill_buffer(c) ==
    LET c1 == [c EXCEPT !.buffer = permute_block(c.key, c.nonce, c.block_counter),
                        !.word_index = 0,
                        !.block_counter = (c.block_counter + 1) % CounterMod]
    IN [cs |-> c1,
        out |-> <<>>,
        err |-> IF c1.block_counter = 0 THEN "exhausted" ELSE "none",
        gens |-> <<c.block_counter>>]

\* the object the member initializers make, before the constructor body runs
csprng_members(k, n, initial_counter) ==
    [key |-> k, nonce |-> n, block_counter |-> initial_counter,
     buffer |-> ZeroBlock, word_index |-> WORDS_PER_BLOCK]

\* csprng(key, nonce, initial_counter)
csprng_ctor(k, n, initial_counter) ==
    csprng_refill_buffer(csprng_members(k, n, initial_counter))

\* operator()()
csprng_next(c) ==
    IF c.word_index >= WORDS_PER_BLOCK
    THEN LET r == csprng_refill_buffer(c)
         IN IF r.err # "none" THEN r
            ELSE [cs |-> [r.cs EXCEPT !.word_index = r.cs.word_index + 1],
                  out |-> <<u64(r.cs.buffer, r.cs.word_index)>>,
                  err |-> "none", gens |-> r.gens]
    ELSE [cs |-> [c EXCEPT !.word_index = c.word_index + 1],
          out |-> <<u64(c.buffer, c.word_index)>>,
          err |-> "none", gens |-> <<>>]

\* the first k bytes of a word
WordBytes(w, k) == [j \in 1 .. k |-> ByteOf(w, j - 1)]

\* fill(std::span<std::byte>): whole words, then the first bytes of one more
RECURSIVE csprng_fill_loop(_, _, _, _)
csprng_fill_loop(c, size, written, generated) ==
    IF size = 0 THEN [cs |-> c, out |-> written, err |-> "none", gens |-> generated]
    ELSE LET r == csprng_next(c)
             k == IF size >= WORDBYTES THEN WORDBYTES ELSE size
         IN IF r.err # "none"
            THEN [cs |-> r.cs, out |-> written, err |-> r.err, gens |-> generated \o r.gens]
            ELSE csprng_fill_loop(r.cs, size - k, written \o WordBytes(r.out[1], k),
                                  generated \o r.gens)

csprng_fill(c, size) == csprng_fill_loop(c, size, <<>>, <<>>)

\* reseed that leaves the block counter where it was (mutant)
csprng_reseed_keeps_counter(c, k, n) ==
    csprng_refill_buffer([c EXCEPT !.key = k, !.nonce = n])

\* reseed(k, n)
csprng_reseed(c, k, n) ==
    csprng_refill_buffer([c EXCEPT !.key = k, !.nonce = n, !.block_counter = 0])

\* discard that forgets what it took from the current block (mutant)
csprng_discard_no_subtract(c, n) ==
    IF n = 0 THEN [cs |-> c, out |-> <<>>, err |-> "none", gens |-> <<>>]
    ELSE LET remaining == WORDS_PER_BLOCK - c.word_index
         IN IF n < remaining
            THEN [cs |-> [c EXCEPT !.word_index = c.word_index + n],
                  out |-> <<>>, err |-> "none", gens |-> <<>>]
            ELSE LET c1 == [c EXCEPT !.word_index = WORDS_PER_BLOCK]
                     full_blocks == n \div WORDS_PER_BLOCK
                     remainder == n % WORDS_PER_BLOCK
                 IN IF full_blocks > 0 /\ c1.block_counter > COUNTER_MAX - full_blocks
                    THEN [cs |-> c1, out |-> <<>>, err |-> "discard_overflow", gens |-> <<>>]
                    ELSE LET c2 == [c1 EXCEPT !.block_counter = @ + full_blocks]
                         IN IF remainder # 0
                            THEN LET r == csprng_refill_buffer(c2)
                                 IN IF r.err # "none" THEN r
                                    ELSE [cs |-> [r.cs EXCEPT !.word_index = remainder],
                                          out |-> <<>>, err |-> "none", gens |-> r.gens]
                            ELSE [cs |-> c2, out |-> <<>>, err |-> "none", gens |-> <<>>]

\* discard whose overflow test also refuses to land on the last counter (mutant)
csprng_discard_refuses_last(c, n) ==
    IF n = 0 THEN [cs |-> c, out |-> <<>>, err |-> "none", gens |-> <<>>]
    ELSE LET remaining == WORDS_PER_BLOCK - c.word_index
         IN IF n < remaining
            THEN [cs |-> [c EXCEPT !.word_index = c.word_index + n],
                  out |-> <<>>, err |-> "none", gens |-> <<>>]
            ELSE LET n1 == n - remaining
                     c1 == [c EXCEPT !.word_index = WORDS_PER_BLOCK]
                     full_blocks == n1 \div WORDS_PER_BLOCK
                     remainder == n1 % WORDS_PER_BLOCK
                 IN IF full_blocks > 0 /\ c1.block_counter >= COUNTER_MAX - full_blocks
                    THEN [cs |-> c1, out |-> <<>>, err |-> "discard_overflow", gens |-> <<>>]
                    ELSE LET c2 == [c1 EXCEPT !.block_counter = @ + full_blocks]
                         IN IF remainder # 0
                            THEN LET r == csprng_refill_buffer(c2)
                                 IN IF r.err # "none" THEN r
                                    ELSE [cs |-> [r.cs EXCEPT !.word_index = remainder],
                                          out |-> <<>>, err |-> "none", gens |-> r.gens]
                            ELSE [cs |-> c2, out |-> <<>>, err |-> "none", gens |-> <<>>]

\* discard(n)
csprng_discard(c, n) ==
    IF n = 0 THEN [cs |-> c, out |-> <<>>, err |-> "none", gens |-> <<>>]
    ELSE LET remaining == WORDS_PER_BLOCK - c.word_index
         IN IF n < remaining
            THEN [cs |-> [c EXCEPT !.word_index = c.word_index + n],
                  out |-> <<>>, err |-> "none", gens |-> <<>>]
            ELSE LET n1 == n - remaining
                     c1 == [c EXCEPT !.word_index = WORDS_PER_BLOCK]
                     full_blocks == n1 \div WORDS_PER_BLOCK
                     remainder == n1 % WORDS_PER_BLOCK
                 IN IF full_blocks > 0 /\ c1.block_counter > COUNTER_MAX - full_blocks
                    THEN [cs |-> c1, out |-> <<>>, err |-> "discard_overflow", gens |-> <<>>]
                    ELSE LET c2 == [c1 EXCEPT !.block_counter = @ + full_blocks]
                         IN IF remainder # 0
                            THEN LET r == csprng_refill_buffer(c2)
                                 IN IF r.err # "none" THEN r
                                    ELSE [cs |-> [r.cs EXCEPT !.word_index = remainder],
                                          out |-> <<>>, err |-> "none", gens |-> r.gens]
                            ELSE [cs |-> c2, out |-> <<>>, err |-> "none", gens |-> <<>>]

\* key_diff of operator==: the OR of the XORs of the key words from word i on
RECURSIVE key_diff_from(_, _, _)
key_diff_from(lhs, rhs, i) ==
    IF i > KEY_WORDS THEN 0
    ELSE Or(Xor(lhs.key[i], rhs.key[i]), key_diff_from(lhs, rhs, i + 1))

\* buffer_diff == 0 of operator==: the eight words of the two buffers agree
buffers_agree(lhs, rhs) ==
    \A i \in 0 .. (WORDS_PER_BLOCK - 1) : u64(lhs.buffer, i) = u64(rhs.buffer, i)

\* operator== that compares the buffers whatever the index is (mutant)
csprng_eq_compares_stale(lhs, rhs) ==
    LET key_diff == key_diff_from(lhs, rhs, 1)
        state_match == /\ lhs.nonce = rhs.nonce
                       /\ lhs.block_counter = rhs.block_counter
                       /\ lhs.word_index = rhs.word_index
    IN IF key_diff # 0 \/ ~state_match THEN FALSE
       ELSE buffers_agree(lhs, rhs)

\* operator==(const csprng&, const csprng&)
csprng_eq(lhs, rhs) ==
    LET key_diff == key_diff_from(lhs, rhs, 1)
        state_match == /\ lhs.nonce = rhs.nonce
                       /\ lhs.block_counter = rhs.block_counter
                       /\ lhs.word_index = rhs.word_index
    IN IF key_diff # 0 \/ ~state_match THEN FALSE
       ELSE IF lhs.word_index < WORDS_PER_BLOCK THEN buffers_agree(lhs, rhs)
       ELSE TRUE

\* operator!=
csprng_ne(lhs, rhs) == ~csprng_eq(lhs, rhs)

\* the fields of a serialized record, in the order they are written
RECORD_FIELDS == 7

\* the version operator<< writes and operator>> accepts
VERSION == 1

\* operator<<: the record written for an engine.  fields tells how many of the seven
\* fields (magic, version, key, nonce, block_counter, word_index, padding) a stream
\* holds before it ends; operator<< writes them all.
csprng_write(c) ==
    [magic |-> "csprng", version |-> VERSION, key |-> c.key, nonce |-> c.nonce,
     block_counter |-> c.block_counter, word_index |-> c.word_index,
     fields |-> RECORD_FIELDS]

\* operator>>: every read goes straight into the object; a read from a stream that
\* has ended leaves its destination as it was, and get() then returns EOF
csprng_read(c, rec) ==
    IF rec.fields < 1 \/ rec.magic # "csprng"
    THEN [cs |-> c, out |-> <<>>, err |-> "bad_magic", gens |-> <<>>]
    ELSE IF rec.fields < 2 \/ rec.version # VERSION
    THEN [cs |-> c, out |-> <<>>, err |-> "unsupported_version", gens |-> <<>>]
    ELSE LET c1 == [c EXCEPT !.key = IF rec.fields >= 3 THEN rec.key ELSE @,
                             !.nonce = IF rec.fields >= 4 THEN rec.nonce ELSE @,
                             !.block_counter = IF rec.fields >= 5 THEN rec.block_counter ELSE @]
             idx == IF rec.fields >= 6 THEN rec.word_index ELSE -1
         IN IF rec.fields < 6 \/ idx < 0 \/ idx > WORDS_PER_BLOCK
            THEN [cs |-> c1, out |-> <<>>, err |-> "corrupted_word_index", gens |-> <<>>]
            ELSE LET c2 == [c1 EXCEPT !.word_index = idx]
                 IN IF rec.fields < RECORD_FIELDS
                    THEN [cs |-> c2, out |-> <<>>, err |-> "read_error", gens |-> <<>>]
                    ELSE IF c2.word_index < WORDS_PER_BLOCK
                    THEN LET saved_counter == c2.block_counter
                         IN IF saved_counter = 0
                            THEN [cs |-> c2, out |-> <<>>, err |-> "mid_block_at_zero",
                                  gens |-> <<>>]
                            ELSE LET r == csprng_refill_buffer(
                                              [c2 EXCEPT !.block_counter = saved_counter - 1])
                                 IN [cs |-> [r.cs EXCEPT !.block_counter = saved_counter,
                                                         !.word_index = idx],
                                     out |-> <<>>, err |-> r.err, gens |-> r.gens]
                    ELSE [cs |-> c2, out |-> <<>>, err |-> "none", gens |-> <<>>]

\* clear(data, nbytes) on an array of words
clear(words) == [i \in 1 .. Len(words) |-> 0]

\* the destructor that leaves the buffer (mutant)
csprng_destroy_keeps_buffer(c) ==
    [c EXCEPT !.key = clear(c.key), !.nonce = clear(c.nonce)]

\* ~csprng()
csprng_destroy(c) ==
    [c EXCEPT !.key = clear(c.key), !.nonce = clear(c.nonce), !.buffer = ZeroBlock]

\* csprng(csprng&&) = default and operator=(csprng&&) = default: memberwise move of
\* arrays and integers; source is the moved-from object, target the new owner
csprng_move(c) == [source |-> c, target |-> c]

\* The keystream of one key and nonce holds 2^CounterBits blocks of 2^3 outputs.
\* The code sizes its jumps to a 64-bit space: 2^32 outputs for each of 2^32
\* streams, 2^48 outputs for each of 2^16 streams.  The exponents keep these
\* proportions of StreamBits.
StreamBits == CounterBits + 3

JumpBits == (32 * StreamBits) \div 64

LongJumpBits == (48 * StreamBits) \div 64

\* the argument of jump(): 1ULL << 32, in outputs
JumpDistance == Pow2(JumpBits)

\* the argument of long_jump(): 1ULL << 48, in outputs
LongJumpDistance == Pow2(LongJumpBits)

\* the streams jump() is sized for: 2^32
JumpStreams == Pow2(StreamBits - JumpBits)

\* the streams long_jump() is sized for: 2^16
LongJumpStreams == Pow2(StreamBits - LongJumpBits)

csprng_jump(c) == csprng_discard(c, JumpDistance)

csprng_long_jump(c) == csprng_discard(c, LongJumpDistance)

---------------------------------------------------------------------------
(* unbiased(lo, hi) of csprng and of random_device.  The locals of a call   *)
(* are [pc, lower_bound, range, t, l, h, multiplied, result]: pc is "loop"  *)
(* while the call stands in its while loop and "done" when it has returned; *)
(* multiplied tells that l and h hold a product.  What draw64() returns is  *)
(* an input of the step that draws.                                         *)

\* the locals of a call of unbiased that has returned v
csprng_returned(lower_bound, range, t, l, h, multiplied, v) ==
    [pc |-> "done", lower_bound |-> lower_bound, range |-> range, t |-> t,
     l |-> l, h |-> h, multiplied |-> multiplied, result |-> v]

\* unbiased without the swap of its bounds (mutant)
csprng_unbiased_no_swap(lower_bound, upper_bound, x) ==
    LET lo == lower_bound
        hi == upper_bound
    IN IF lo = hi THEN csprng_returned(lo, 0, 0, 0, 0, FALSE, lo)
       ELSE LET range == (hi - lo + 1) % WordMod
            IN IF range = 0 THEN csprng_returned(lo, range, 0, 0, 0, FALSE, x)
               ELSE LET m == umul128(x, range)
                        t == (WORD_MAX - range + 1) % range
                    IN IF m.lo < range /\ m.lo < t
                       THEN [pc |-> "loop", lower_bound |-> lo, range |-> range, t |-> t,
                             l |-> m.lo, h |-> m.hi, multiplied |-> TRUE, result |-> 0]
                       ELSE csprng_returned(lo, range, IF m.lo < range THEN t ELSE 0,
                                            m.lo, m.hi, TRUE, (lo + m.hi) % WordMod)

\* unbiased whose threshold is one multiple short (mutant)
csprng_unbiased_short_threshold(lower_bound, upper_bound, x) ==
    LET lo == IF lower_bound > upper_bound THEN upper_bound ELSE lower_bound
        hi == IF lower_bound > upper_bound THEN lower_bound ELSE upper_bound
    IN IF lo = hi THEN csprng_returned(lo, 0, 0, 0, 0, FALSE, lo)
       ELSE LET range == (hi - lo + 1) % WordMod
            IN IF range = 0 THEN csprng_returned(lo, range, 0, 0, 0, FALSE, x)
               ELSE LET m == umul128(x, range)
                        t == (WORD_MAX - range) % range
                    IN IF m.lo < range /\ m.lo < t
                       THEN [pc |-> "loop", lower_bound |-> lo, range |-> range, t |-> t,
                             l |-> m.lo, h |-> m.hi, multiplied |-> TRUE, result |-> 0]
                       ELSE csprng_returned(lo, range, IF m.lo < range THEN t ELSE 0,
                                            m.lo, m.hi, TRUE, (lo + m.hi) % WordMod)

\* csprng::unbiased(lower_bound, upper_bound) up to its return or to the first turn of
\* its while loop; x is what draw64() returns when the call comes to it
csprng_unbiased(lower_bound, upper_bound, x) ==
    LET lo == IF lower_bound > upper_bound THEN upper_bound ELSE lower_bound
        hi == IF lower_bound > upper_bound THEN lower_bound ELSE upper_bound
    IN IF lo = hi THEN csprng_returned(lo, 0, 0, 0, 0, FALSE, lo)
       ELSE LET range == (hi - lo + 1) % WordMod
            IN IF range = 0 THEN csprng_returned(lo, range, 0, 0, 0, FALSE, x)
               ELSE LET m == umul128(x, range)
                        t == (WORD_MAX - range + 1) % range
                    IN IF m.lo < range /\ m.lo < t
                       THEN [pc |-> "loop", lower_bound |-> lo, range |-> range, t |-> t,
                             l |-> m.lo, h |-> m.hi, multiplied |-> TRUE, result |-> 0]
                       ELSE csprng_returned(lo, range, IF m.lo < range THEN t ELSE 0,
                                            m.lo, m.hi, TRUE, (lo + m.hi) % WordMod)

\* one turn of the while loop of csprng::unbiased, with x the value drawn in it
csprng_unbiased_loop(u, x) ==
    LET m == umul128(x, u.range)
    IN IF m.lo < u.t
       THEN [u EXCEPT !.l = m.lo, !.h = m.hi]
       ELSE csprng_returned(u.lower_bound, u.range, u.t, m.lo, m.hi, TRUE,
                            (u.lower_bound + m.hi) % WordMod)

\* the locals of a call of unbiased that has returned v
random_device_returned(lower_bound, range, t, l, h, multiplied, v) ==
    [pc |-> "done", lower_bound |-> lower_bound, range |-> range, t |-> t,
     l |-> l, h |-> h, multiplied |-> multiplied, result |-> v]

\* random_device::unbiased(lower_bound, upper_bound) up to its return or to the first turn of
\* its while loop; x is what draw64() returns when the call comes to it
random_device_unbiased(lower_bound, upper_bound, x) ==
    LET lo == IF lower_bound > upper_bound THEN upper_bound ELSE lower_bound
        hi == IF lower_bound > upper_bound THEN lower_bound ELSE upper_bound
    IN IF lo = hi THEN random_device_returned(lo, 0, 0, 0, 0, FALSE, lo)
       ELSE LET range == (hi - lo + 1) % WordMod
            IN IF range = 0 THEN random_device_returned(lo, range, 0, 0, 0, FALSE, x)
               ELSE LET m == umul128(x, range)
                        t == (WORD_MAX - range + 1) % range
                    IN IF m.lo < range /\ m.lo < t
                       THEN [pc |-> "loop", lower_bound |-> lo, range |-> range, t |-> t,
                             l |-> m.lo, h |-> m.hi, multiplied |-> TRUE, result |-> 0]
                       ELSE random_device_returned(lo, range, IF m.lo < range THEN t ELSE 0,
                                            m.lo, m.hi, TRUE, (lo + m.hi) % WordMod)

\* one turn of the while loop of random_device::unbiased, with x the value drawn in it
random_device_unbiased_loop(u, x) ==
    LET m == umul128(x, u.range)
    IN IF m.lo < u.t
       THEN [u EXCEPT !.l = m.lo, !.h = m.hi]
       ELSE random_device_returned(u.lower_bound, u.range, u.t, m.lo, m.hi, TRUE,
                            (u.lower_bound + m.hi) % WordMod)

\* the locals of a call of fast::unbiased that has returned v
fast_returned(lo, range, t, p_lo, p_hi, multiplied, v) ==
    [pc |-> "done", lower_bound |-> lo, range |-> range, t |-> t,
     l |-> p_lo, h |-> p_hi, multiplied |-> multiplied, result |-> v]

\* fast::unbiased(lo, hi) up to its return or to the first turn of its while loop; x
\* is what draw64() returns when the call comes to it.  The threshold is taken from
\* max - range + p_lo and the value returned is p_lo + p_hi.
fast_unbiased(lower_bound, upper_bound, x) ==
    LET lo == IF lower_bound > upper_bound THEN upper_bound ELSE lower_bound
        hi == IF lower_bound > upper_bound THEN lower_bound ELSE upper_bound
    IN IF lo = hi THEN fast_returned(lo, 0, 0, 0, 0, FALSE, lo)
       ELSE LET range == (hi - lo + 1) % WordMod
            IN IF range = 0 THEN fast_returned(lo, range, 0, 0, 0, FALSE, x)
               ELSE LET m == umul128(x, range)
                        t == ((WORD_MAX - range + m.lo) % WordMod) % range
                    IN IF m.lo < range /\ m.lo < t
                       THEN [pc |-> "loop", lower_bound |-> lo, range |-> range, t |-> t,
                             l |-> m.lo, h |-> m.hi, multiplied |-> TRUE, result |-> 0]
                       ELSE fast_returned(lo, range, IF m.lo < range THEN t ELSE 0,
                                          m.lo, m.hi, TRUE, (m.lo + m.hi) % WordMod)

\* one turn of the while loop of fast::unbiased, with x the value drawn in it
fast_unbiased_loop(u, x) ==
    LET m == umul128(x, u.range)
    IN IF m.lo < u.t
       THEN [u EXCEPT !.l = m.lo, !.h = m.hi]
       ELSE fast_returned(u.lower_bound, u.range, u.t, m.lo, m.hi, TRUE,
                          (m.lo + m.hi) % WordMod)

---------------------------------------------------------------------------
(* RNG::fast.  An engine object is [state, buffer, index].  An operation    *)
(* yields [f |-> the object after it, out |-> what it returned].            *)

\* the output refill() makes of S: lo ^ hi ^ S of the product S * (S ^ MIX);
\* tabulated once over all words
fast_output ==
    [S \in Word |->
        LET m == umul128(S, Xor(S, FAST_MIX % WordMod)) IN Xor(Xor(m.lo, m.hi), S)]

\* refill()
fast_refill(f) ==
    [state |-> (f.state + FAST_BUFFER_SIZE * FAST_INCREMENT) % WordMod,
     buffer |-> [i \in 1 .. FAST_BUFFER_SIZE |->
                    fast_output[(f.state + i * FAST_INCREMENT) % WordMod]],
     index |-> 0]

\* fast(seed): state(seed ^ 0x9e3779b97f4a7c15), then refill()
fast_ctor(seed, garbage) ==
    fast_refill([state |-> Xor(seed, FAST_SEED_MIX % WordMod), buffer |-> garbage,
                 index |-> FAST_BUFFER_SIZE])

\* seed(seq) and fast(seq): the state from two 32-bit words of the sequence; buffer
\* and index are not touched
fast_seed_seq(f, seeds) ==
    [f EXCEPT !.state = Or((seeds[2] * Pow2(WordBits \div 2)) % WordMod, seeds[1])]

\* fast(SeedSeq&): the buffer not initialized, the index at its default member
\* initializer
fast_ctor_seq(seeds, garbage) ==
    fast_seed_seq([state |-> 0, buffer |-> garbage, index |-> FAST_BUFFER_SIZE], seeds)

\* seed(s)
fast_seed(f, s) == [f EXCEPT !.state = s]

\* operator()()
fast_next(f) ==
    LET f1 == IF f.index = FAST_BUFFER_SIZE THEN fast_refill(f) ELSE f
    IN [f |-> [f1 EXCEPT !.index = f1.index + 1], out |-> f1.buffer[f1.index + 1]]

\* bulk(x, n): the object after it and the bytes written to x
RECURSIVE fast_bulk_loop(_, _, _)
fast_bulk_loop(f, n, written) ==
    LET bufsize == FAST_BUFFER_SIZE * WORDBYTES
    IN IF n >= bufsize
       THEN LET f1 == fast_refill(f)
            IN fast_bulk_loop(f1, n - bufsize, written \o BufferBytes(f1.buffer, bufsize))
       ELSE IF n > 0
            THEN LET f1 == fast_refill(f)
                 IN [f |-> [f1 EXCEPT !.index = FAST_BUFFER_SIZE],
                     out |-> written \o BufferBytes(f1.buffer, n)]
            ELSE [f |-> [f EXCEPT !.index = FAST_BUFFER_SIZE], out |-> written]

fast_bulk(f, n) == fast_bulk_loop(f, n, <<>>)

\* discard(nsteps): state += nsteps * INCREMENT
fast_discard(f, nsteps) ==
    [f EXCEPT !.state = (f.state + nsteps * FAST_INCREMENT) % WordMod]

\* jump(): discard(1ULL << 32)
fast_jump(f) == fast_discard(f, Pow2(Scaled(32)))

\* long_jump(): discard(1ULL << 48)
fast_long_jump(f) == fast_discard(f, Pow2(Scaled(48)))

\* operator==
fast_eq(lhs, rhs) == lhs.state = rhs.state

---------------------------------------------------------------------------
(* Helpers of the properties: limb vectors and their sum *)

Limbs(n, f(_)) == [i \in 1 .. n |-> f(i - 1) % WordMod]

ZeroOf(i) == 0

MaxOf(i) == WORD_MAX

RampOf(i) == 7 * i + 3

AltOf(i) == IF i % 2 = 0 THEN WORD_MAX ELSE 0

\* a + b as wide integers, limb 0 least significant, the carry out of the top dropped
RECURSIVE VecAddFrom(_, _, _, _)
VecAddFrom(a, b, i, carry) ==
    IF i > Len(a) THEN <<>>
    ELSE LET t == a[i] + b[i] + carry
         IN <<t % WordMod>> \o VecAddFrom(a, b, i + 1, t \div WordMod)

VecAdd(a, b) == VecAddFrom(a, b, 1, 0)

Unit(n, k) == [i \in 1 .. n |-> IF i = k + 1 THEN 1 ELSE 0]

\* step vectors given to big_jump: zero limbs, unit strides, products that
\* overflow the top limb
StepVectors ==
    { Limbs(COUNTERSIZE, ZeroOf), Unit(COUNTERSIZE, 0), Unit(COUNTERSIZE, 1),
      Limbs(COUNTERSIZE, MaxOf), Limbs(COUNTERSIZE, RampOf), Limbs(COUNTERSIZE, AltOf),
      [i \in 1 .. COUNTERSIZE |-> IF i = COUNTERSIZE THEN WORD_MAX ELSE 0] }

\* counter states the jumps start from
JumpStarts ==
    { Limbs(COUNTERSIZE, ZeroOf), Limbs(COUNTERSIZE, MaxOf), Limbs(COUNTERSIZE, RampOf) }

\* counter states the walk of the whole cycle starts from
PeriodStarts ==
    { Limbs(PeriodLimbs, ZeroOf), Limbs(PeriodLimbs, MaxOf), Limbs(PeriodLimbs, RampOf) }

\* what an uninitialized output buffer may hold
GarbageBuffers == { Limbs(BUFFERSIZE, ZeroOf), Limbs(BUFFERSIZE, RampOf) }

\* limb vectors the random device or a seed sequence may deliver
RandomLimbs == { Limbs(COUNTERSIZE, MaxOf) }

\* arguments of the array constructor
ArrayArgs == { Limbs(COUNTERSIZE, ZeroOf), Limbs(COUNTERSIZE, AltOf) }

\* arguments of Nasam1024::big_jump
BigJumpArgs == { Limbs(COUNTERSIZE, RampOf) }

\* byte counts given to bulk and fill
BulkSizes == {0, 5, BUFFERSIZE * WORDBYTES, BUFFERSIZE * WORDBYTES + 6}

\* arguments of discard: within a block, to its end, past it, over whole blocks
DiscardArgs == {0, 1, BUFFERSIZE - 1, BUFFERSIZE, BUFFERSIZE + 1, MaxDiscard}

\* what a read past the end of the buffer array may return
OutOfBoundsWords == {0, WORD_MAX}

\* arguments of set_counter
SetCounterArgs == { [Counter_new(COUNTERSIZE) EXCEPT !.state = Limbs(COUNTERSIZE, MaxOf)] }

\* arguments of set_state: a state taken with get_state from a seeded engine three
\* outputs into its first block, a hand-built state whose buffer was not made from
\* its counter, and a hand-built state whose cursor is past the buffer
SetStateArgs ==
    { Nasam_get_state(Nasam_discard(Nasam_ctor_seed(0, Limbs(BUFFERSIZE, ZeroOf)), 3)),
      [counter |-> Counter_new(COUNTERSIZE), buffer |-> Limbs(BUFFERSIZE, RampOf),
       buffer_position |-> 0],
      [counter |-> Counter_new(COUNTERSIZE), buffer |-> Limbs(BUFFERSIZE, RampOf),
       buffer_position |-> BUFFERSIZE + 1] }

\* the number of states of a counter of PeriodLimbs limbs
PeriodSize == Pow2(WordBits * PeriodLimbs)

---------------------------------------------------------------------------
(* The variables of the parts of the program a specification leaves out *)

CounterIdle ==
    /\ ctr = <<>>
    /\ ref = <<>>
    /\ stepA = <<>>
    /\ stepB = <<>>
    /\ cpc = 0
    /\ rpc = 0

HistoryIdle ==
    /\ op = "none"
    /\ arg = <<>>
    /\ out = <<>>
    /\ err = "none"
    /\ steps = 0

NasamIdle ==
    /\ gen = <<>>
    /\ gpre = <<>>

CsprngIdle ==
    /\ cs = <<>>
    /\ cspre = <<>>
    /\ origin = <<>>
    /\ pos = 0
    /\ clean = TRUE
    /\ exh = 0
    /\ gens = <<>>
    /\ reuse = FALSE

UnbiasedIdle == ub = <<>>

PairIdle ==
    /\ eng1 = <<>>
    /\ eng2 = <<>>
    /\ pre1 = <<>>


---------------------------------------------------------------------------
(* SpecPeriod: one counter of PeriodLimbs limbs, incremented around its     *)
(* whole cycle.  ref keeps the counter as it was at the start, cpc counts   *)
(* the increments.                                                          *)

PeriodInit ==
    /\ \E s \in PeriodStarts : ctr = [Counter_new(PeriodLimbs) EXCEPT !.state = s]
    /\ ref = ctr
    /\ cpc = 0
    /\ rpc = 0
    /\ stepA = <<>>
    /\ stepB = <<>>
    /\ HistoryIdle
    /\ NasamIdle
    /\ CsprngIdle
    /\ UnbiasedIdle
    /\ PairIdle

PeriodIncrement ==
    /\ cpc < PeriodSize
    /\ ctr' = increment_once(ctr)
    /\ cpc' = cpc + 1
    /\ UNCHANGED <<ref, rpc, stepA, stepB, hvars, gvars, svars, ub, pvars>>

PeriodNext == PeriodIncrement

SpecPeriod == PeriodInit /\ [][PeriodNext]_vars

---------------------------------------------------------------------------
(* SpecJump: two copies of one counter.  ctr takes big_jump(stepA) and then *)
(* big_jump(stepB); ref takes the single big_jump(stepA + stepB).           *)

JumpInit ==
    /\ \E s \in JumpStarts : ctr = [Counter_new(COUNTERSIZE) EXCEPT !.state = s]
    /\ ref = ctr
    /\ stepA \in StepVectors
    /\ stepB \in StepVectors
    /\ cpc = 0
    /\ rpc = 0
    /\ HistoryIdle
    /\ NasamIdle
    /\ CsprngIdle
    /\ UnbiasedIdle
    /\ PairIdle

JumpFirst ==
    /\ cpc = 0
    /\ ctr' = Counter_big_jump(ctr, stepA)
    /\ cpc' = 1
    /\ UNCHANGED <<ref, rpc, stepA, stepB, hvars, gvars, svars, ub, pvars>>

JumpSecond ==
    /\ cpc = 1
    /\ ctr' = Counter_big_jump(ctr, stepB)
    /\ cpc' = 2
    /\ UNCHANGED <<ref, rpc, stepA, stepB, hvars, gvars, svars, ub, pvars>>

JumpSum ==
    /\ rpc = 0
    /\ ref' = Counter_big_jump(ref, VecAdd(stepA, stepB))
    /\ rpc' = 1
    /\ UNCHANGED <<ctr, cpc, stepA, stepB, hvars, gvars, svars, ub, pvars>>

JumpNext == JumpFirst \/ JumpSecond \/ JumpSum

SpecJump == JumpInit /\ [][JumpNext]_vars

---------------------------------------------------------------------------
(* SpecAdvance: two copies of one counter.  ctr takes one operator+=(n);    *)
(* ref takes operator++ n times.  stepA holds n, stepB the starting state.  *)

\* counter states operator+= starts from
AdvanceStarts == JumpStarts \cup StepVectors

AdvanceInit ==
    /\ \E s \in AdvanceStarts :
          /\ ctr = [Counter_new(COUNTERSIZE) EXCEPT !.state = s]
          /\ stepB = s
    /\ ref = ctr
    /\ \E n \in Word : stepA = <<n>>
    /\ cpc = 0
    /\ rpc = 0
    /\ HistoryIdle
    /\ NasamIdle
    /\ CsprngIdle
    /\ UnbiasedIdle
    /\ PairIdle

AdvanceOnce ==
    /\ cpc = 0
    /\ ctr' = advance(ctr, stepA[1])
    /\ cpc' = 1
    /\ UNCHANGED <<ref, rpc, stepA, stepB, hvars, gvars, svars, ub, pvars>>

AdvanceIncrement ==
    /\ rpc < stepA[1]
    /\ ref' = increment_once(ref)
    /\ rpc' = rpc + 1
    /\ UNCHANGED <<ctr, cpc, stepA, stepB, hvars, gvars, svars, ub, pvars>>

AdvanceNext == AdvanceOnce \/ AdvanceIncrement

SpecAdvance == AdvanceInit /\ [][AdvanceNext]_vars

---------------------------------------------------------------------------
(* SpecSkip: two copies of one counter.  ctr takes operator+=(k); ref takes *)
(* big_jump with the step (k, 0, ..., 0), and big_jump with the all-zero    *)
(* step before or after it.  stepA holds k, stepB the starting state; rpc   *)
(* is 1 after the jump by k and 2 more after the jump by zero.              *)

SkipInit ==
    /\ \E s \in AdvanceStarts :
          /\ ctr = [Counter_new(COUNTERSIZE) EXCEPT !.state = s]
          /\ stepB = s
    /\ ref = ctr
    /\ \E k \in Word : stepA = <<k>>
    /\ cpc = 0
    /\ rpc = 0
    /\ HistoryIdle
    /\ NasamIdle
    /\ CsprngIdle
    /\ UnbiasedIdle
    /\ PairIdle

\* the step vector { k, 0, ..., 0 }
LowStep(k) == [i \in 1 .. COUNTERSIZE |-> IF i = 1 THEN k ELSE 0]

SkipAdvance ==
    /\ cpc = 0
    /\ ctr' = advance(ctr, stepA[1])
    /\ cpc' = 1
    /\ UNCHANGED <<ref, rpc, stepA, stepB, hvars, gvars, svars, ub, pvars>>

SkipBigJump ==
    /\ rpc = 0
    /\ ref' = Counter_big_jump(ref, LowStep(stepA[1]))
    /\ rpc' = 1
    /\ UNCHANGED <<ctr, cpc, stepA, stepB, hvars, gvars, svars, ub, pvars>>

SkipZeroJump ==
    /\ rpc \in {0, 1}
    /\ ref' = Counter_big_jump(ref, Limbs(COUNTERSIZE, ZeroOf))
    /\ rpc' = rpc + 2
    /\ UNCHANGED <<ctr, cpc, stepA, stepB, hvars, gvars, svars, ub, pvars>>

SkipNext == SkipAdvance \/ SkipBigJump \/ SkipZeroJump

SpecSkip == SkipInit /\ [][SkipNext]_vars

---------------------------------------------------------------------------
(* SpecNasam: one Nasam1024 object, constructed and then given at most      *)
(* MaxSteps calls of its public operations.                                 *)

NasamConstructed(name, a, g, garbage) ==
    /\ gen = g
    /\ gpre = Nasam_uninitialized(garbage)
    /\ op = name
    /\ arg = a
    /\ out = <<>>
    /\ err = "none"
    /\ steps = 0

NasamInit ==
    /\ CounterIdle
    /\ CsprngIdle
    /\ UnbiasedIdle
    /\ PairIdle
    /\ \E garbage \in GarbageBuffers :
          \/ \E limbs \in RandomLimbs :
                NasamConstructed("ctor_default", limbs, Nasam_ctor_default(limbs, garbage), garbage)
          \/ \E seed \in Seeds :
                NasamConstructed("ctor_seed", seed, Nasam_ctor_seed(seed, garbage), garbage)
          \/ \E a \in ArrayArgs :
                NasamConstructed("ctor_array", a, Nasam_ctor_array(a, garbage), garbage)

\* one call: the object after it, what it returned
NasamCall(name, a, g, o) ==
    /\ steps < MaxSteps
    /\ gen' = g
    /\ gpre' = gen
    /\ op' = name
    /\ arg' = a
    /\ out' = o
    /\ err' = "none"
    /\ steps' = steps + 1
    /\ UNCHANGED <<cvars, svars, ub, pvars>>

GenNext ==
    /\ CursorInRange(gen)
    /\ LET r == Nasam_next(gen) IN NasamCall("next", <<>>, r.g, <<r.out>>)

\* operator()() with the cursor past the buffer: no refill, and buffer[cursor] is
\* read outside the array, so any word may come back
GenNextOutOfBounds ==
    /\ ~CursorInRange(gen)
    /\ \E v \in OutOfBoundsWords :
          NasamCall("next", <<>>,
                    [gen EXCEPT !.buffer_position = gen.buffer_position + 1], <<v>>)

GenDraw32 ==
    /\ CursorInRange(gen)
    /\ LET r == Nasam_draw32(gen) IN NasamCall("draw32", <<>>, r.g, <<r.out>>)

GenDraw32OutOfBounds ==
    /\ ~CursorInRange(gen)
    /\ \E v \in OutOfBoundsWords :
          NasamCall("draw32", <<>>,
                    [gen EXCEPT !.buffer_position = gen.buffer_position + 1], <<LowHalf(v)>>)

GenBulk ==
    \E n \in BulkSizes :
        LET r == Nasam_bulk(gen, n) IN NasamCall("bulk", n, r.g, r.out)

GenDiscard ==
    \E n \in DiscardArgs : NasamCall("discard", n, Nasam_discard(gen, n), <<>>)

GenBigJump ==
    \E step \in BigJumpArgs : NasamCall("big_jump", step, Nasam_big_jump(gen, step), <<>>)

GenJump64 == NasamCall("jump64", <<>>, Nasam_jump64(gen), <<>>)

GenJump128 == NasamCall("jump128", <<>>, Nasam_jump128(gen), <<>>)

GenJump192 == NasamCall("jump192", <<>>, Nasam_jump192(gen), <<>>)

GenJump256 == NasamCall("jump256", <<>>, Nasam_jump256(gen), <<>>)

GenJump == NasamCall("jump", <<>>, Nasam_jump(gen), <<>>)

GenLongJump == NasamCall("long_jump", <<>>, Nasam_long_jump(gen), <<>>)

GenReseed ==
    \E seed \in Seeds : NasamCall("reseed", seed, Nasam_reseed(gen, seed), <<>>)

GenSeed ==
    \E seed \in Seeds, garbage \in GarbageBuffers :
        NasamCall("seed", seed, Nasam_seed(gen, seed, garbage), <<>>)

GenSeedDefault ==
    \E limbs \in RandomLimbs, garbage \in GarbageBuffers :
        NasamCall("seed_default", limbs, Nasam_seed_default(gen, limbs, garbage), <<>>)

GenSetCounter ==
    \E c \in SetCounterArgs : NasamCall("set_counter", c, Nasam_set_counter(gen, c), <<>>)

GenSetState ==
    \E st \in SetStateArgs : NasamCall("set_state", st, Nasam_set_state(gen, st), <<>>)

NasamNext ==
    \/ GenNext
    \/ GenNextOutOfBounds
    \/ GenDraw32
    \/ GenDraw32OutOfBounds
    \/ GenBulk
    \/ GenDiscard
    \/ GenBigJump
    \/ GenJump64
    \/ GenJump128
    \/ GenJump192
    \/ GenJump256
    \/ GenJump
    \/ GenLongJump
    \/ GenReseed
    \/ GenSeed
    \/ GenSeedDefault
    \/ GenSetCounter
    \/ GenSetState

SpecNasam == NasamInit /\ [][NasamNext]_vars

---------------------------------------------------------------------------
(* SpecFastPair: two fast objects, each constructed from a seed or from a   *)
(* seed sequence, and then given at most MaxSteps calls of next, bulk,      *)
(* discard, jump, long_jump and seed between them.  op, arg, out and pre1   *)
(* describe the last call on the first object.                              *)

\* the two 32-bit words a seed sequence generates
FastSeedWords == { <<0, 0>>, <<1, 2>> }

\* arguments of fast::discard
FastDiscardArgs == {0, 1, FAST_BUFFER_SIZE, FAST_BUFFER_SIZE + 1}

\* byte counts given to fast::bulk
FastBulkSizes == {0, 5, FAST_BUFFER_SIZE * WORDBYTES + 6}

\* the objects the constructors make
FastConstructed ==
    { fast_ctor(seed, garbage) : seed \in Seeds, garbage \in GarbageBuffers } \cup
    { fast_ctor_seq(seeds, garbage) : seeds \in FastSeedWords, garbage \in GarbageBuffers }

FastPairInit ==
    /\ CounterIdle
    /\ NasamIdle
    /\ CsprngIdle
    /\ UnbiasedIdle
    /\ eng1 \in FastConstructed
    /\ eng2 \in FastConstructed
    /\ pre1 = <<>>
    /\ op = "ctor"
    /\ arg = <<>>
    /\ out = <<>>
    /\ err = "none"
    /\ steps = 0

\* one call on the first object
FastCallFirst(name, a, f, o) ==
    /\ steps < MaxSteps
    /\ steps' = steps + 1
    /\ eng1' = f
    /\ pre1' = eng1
    /\ op' = name
    /\ arg' = a
    /\ out' = o
    /\ UNCHANGED <<eng2, err, cvars, gvars, svars, ub>>

\* one call on the second object
FastCallSecond(f) ==
    /\ steps < MaxSteps
    /\ steps' = steps + 1
    /\ eng2' = f
    /\ UNCHANGED <<eng1, pre1, op, arg, out, err, cvars, gvars, svars, ub>>

FastNextFirst == LET r == fast_next(eng1) IN FastCallFirst("next", <<>>, r.f, <<r.out>>)

FastNextSecond == FastCallSecond(fast_next(eng2).f)

FastBulkFirst ==
    \E n \in FastBulkSizes :
        LET r == fast_bulk(eng1, n) IN FastCallFirst("bulk", n, r.f, r.out)

FastBulkSecond == \E n \in FastBulkSizes : FastCallSecond(fast_bulk(eng2, n).f)

FastDiscardFirst ==
    \E n \in FastDiscardArgs : FastCallFirst("discard", n, fast_discard(eng1, n), <<>>)

FastDiscardSecond == \E n \in FastDiscardArgs : FastCallSecond(fast_discard(eng2, n))

FastJumpFirst == FastCallFirst("jump", Pow2(Scaled(32)), fast_jump(eng1), <<>>)

FastJumpSecond == FastCallSecond(fast_jump(eng2))

FastLongJumpFirst == FastCallFirst("long_jump", Pow2(Scaled(48)), fast_long_jump(eng1), <<>>)

FastLongJumpSecond == FastCallSecond(fast_long_jump(eng2))

FastSeedFirst == \E s \in Seeds : FastCallFirst("seed", s, fast_seed(eng1, s), <<>>)

FastSeedSecond == \E s \in Seeds : FastCallSecond(fast_seed(eng2, s))

FastPairNext ==
    \/ FastNextFirst
    \/ FastNextSecond
    \/ FastBulkFirst
    \/ FastBulkSecond
    \/ FastDiscardFirst
    \/ FastDiscardSecond
    \/ FastJumpFirst
    \/ FastJumpSecond
    \/ FastLongJumpFirst
    \/ FastLongJumpSecond
    \/ FastSeedFirst
    \/ FastSeedSecond

SpecFastPair == FastPairInit /\ [][FastPairNext]_vars

---------------------------------------------------------------------------
(* SpecMixer: the mixer applied to two words.  arg holds the two words, out *)
(* the two values nasam returned for them.                                  *)

MixerInit ==
    /\ CounterIdle
    /\ NasamIdle
    /\ CsprngIdle
    /\ UnbiasedIdle
    /\ PairIdle
    /\ op = "none"
    /\ \E a \in Word, b \in Word : arg = <<a, b>>
    /\ out = <<>>
    /\ err = "none"
    /\ steps = 0

MixPair ==
    /\ op = "none"
    /\ op' = "nasam"
    /\ out' = <<nasam(arg[1]), nasam(arg[2])>>
    /\ steps' = steps + 1
    /\ UNCHANGED <<arg, err, cvars, gvars, svars, ub, pvars>>

MixerNext == MixPair

SpecMixer == MixerInit /\ [][MixerNext]_vars

---------------------------------------------------------------------------
(* SpecNasamStream: one Nasam1024 object, constructed, moved at most once   *)
(* by discard, big_jump or set_counter, and then read with next() for two   *)
(* blocks and one value more.  Here gpre is the object before the first     *)
(* next() of the run and steps the number of values read.                   *)

\* the number of values read in a run
StreamLength == 2 * BUFFERSIZE + 1

StreamCtors == {"ctor_default", "ctor_seed", "ctor_array"}

\* a call before the run
StreamMoved(name, a, g) ==
    /\ op \in StreamCtors
    /\ gen' = g
    /\ op' = name
    /\ arg' = a
    /\ UNCHANGED <<gpre, out, err, steps, cvars, svars, ub, pvars>>

StreamDiscard ==
    \E n \in DiscardArgs : StreamMoved("discard", n, Nasam_discard(gen, n))

StreamBigJump ==
    \E step \in BigJumpArgs : StreamMoved("big_jump", step, Nasam_big_jump(gen, step))

StreamSetCounter ==
    \E c \in SetCounterArgs : StreamMoved("set_counter", c, Nasam_set_counter(gen, c))

\* the first next() of a run, on an empty buffer
StreamFirst ==
    /\ steps = 0
    /\ is_buffer_empty(gen)
    /\ LET r == Nasam_next(gen)
       IN /\ gen' = r.g
          /\ out' = <<r.out>>
    /\ gpre' = gen
    /\ op' = "next"
    /\ arg' = <<>>
    /\ steps' = 1
    /\ UNCHANGED <<err, cvars, svars, ub, pvars>>

\* the following next() calls of the run
StreamFollowing ==
    /\ steps \in 1 .. (StreamLength - 1)
    /\ LET r == Nasam_next(gen)
       IN /\ gen' = r.g
          /\ out' = <<r.out>>
    /\ steps' = steps + 1
    /\ UNCHANGED <<gpre, op, arg, err, cvars, svars, ub, pvars>>

NasamStreamNext ==
    \/ StreamDiscard
    \/ StreamBigJump
    \/ StreamSetCounter
    \/ StreamFirst
    \/ StreamFollowing

SpecNasamStream == NasamInit /\ [][NasamStreamNext]_vars

---------------------------------------------------------------------------
(* SpecCsprng: one csprng object, constructed and then given calls of its   *)
(* public operations.  A call that throws keeps what it wrote to the object *)
(* before the throw; the caller may catch the error and call again.         *)

\* a key whose last word is b and whose other words are zero
KeyOf(b) == [i \in 1 .. KEY_WORDS |-> IF i = KEY_WORDS THEN b ELSE 0]

\* a nonce whose last word is b
NonceOf(b) == [i \in 1 .. NONCE_WORDS |-> IF i = NONCE_WORDS THEN b ELSE 0]

Keys == { KeyOf(0), KeyOf(1) }

Nonces == { NonceOf(0), NonceOf(1) }

\* Keys and Nonces are also what the default constructor reads from the entropy
\* source and what the block constructors take from the permuted seed block.
\* initial counters given to the constructor; with COUNTER_MAX the constructor throws
\* and there is no object
StartCounters == {0, COUNTER_MAX - 2, COUNTER_MAX - 1}

\* arguments of csprng::discard
CsDiscardArgs ==
    {0, 1, WORDS_PER_BLOCK - 1, WORDS_PER_BLOCK, WORDS_PER_BLOCK + 1,
     2 * WORDS_PER_BLOCK, MaxDiscard, WORD_MAX}

\* byte counts given to csprng::fill
FillSizes == {0, 5, WORDS_PER_BLOCK * WORDBYTES + 6}

Last(seq) == seq[Len(seq)]

CsConstructed(name, a, k, n, c, r) ==
    /\ r.err = "none"
    /\ cs = r.cs
    /\ cspre = csprng_members(k, n, c)
    /\ origin = [key |-> k, nonce |-> n, counter |-> c]
    /\ pos = 0
    /\ clean = TRUE
    /\ exh = 0
    /\ gens = r.gens
    /\ reuse = FALSE
    /\ op = name
    /\ arg = a
    /\ out = <<>>
    /\ err = "none"
    /\ steps = 0

CsprngInit ==
    /\ CounterIdle
    /\ NasamIdle
    /\ UnbiasedIdle
    /\ PairIdle
    /\ \E k \in Keys, n \in Nonces :
          \/ \E c \in StartCounters :
                CsConstructed("ctor", <<k, n, c>>, k, n, c, csprng_ctor(k, n, c))
          \/ CsConstructed("ctor_default", <<>>, k, n, 0, csprng_ctor(k, n, 0))
          \/ CsConstructed("ctor_block64", <<>>, k, n, 0, csprng_ctor(k, n, 0))
          \/ CsConstructed("ctor_block32", <<>>, k, n, 0, csprng_ctor(k, n, 0))

\* one call: r is what the operation yields, adv the outputs it returns or skips
CsCall(name, a, r, adv) ==
    /\ cs' = r.cs
    /\ cspre' = cs
    /\ op' = name
    /\ arg' = a
    /\ out' = r.out
    /\ err' = r.err
    /\ clean' = (clean /\ r.err = "none")
    /\ pos' = IF clean' THEN pos + adv ELSE 0
    /\ exh' = IF exh > 0 THEN 2 ELSE IF r.err = "exhausted" THEN 1 ELSE 0
    /\ gens' = <<Last(gens)>> \o r.gens
    /\ reuse' = (reuse \/ \E i \in 1 .. Len(r.gens) : r.gens[i] = origin.counter)
    /\ UNCHANGED <<origin, steps, cvars, gvars, ub, pvars>>

CsNext == CsCall("next", <<>>, csprng_next(cs), 1)

CsFill ==
    \E size \in FillSizes :
        CsCall("fill", size, csprng_fill(cs, size), (size + WORDBYTES - 1) \div WORDBYTES)

CsDiscard == \E n \in CsDiscardArgs : CsCall("discard", n, csprng_discard(cs, n), n)

CsJump == CsCall("jump", JumpDistance, csprng_jump(cs), JumpDistance)

CsLongJump == CsCall("long_jump", LongJumpDistance, csprng_long_jump(cs), LongJumpDistance)

CsReseed ==
    \E k \in Keys, n \in Nonces :
        LET r == csprng_reseed(cs, k, n)
        IN /\ cs' = r.cs
           /\ cspre' = cs
           /\ origin' = [key |-> k, nonce |-> n, counter |-> 0]
           /\ pos' = 0
           /\ clean' = TRUE
           /\ exh' = 0
           /\ gens' = r.gens
           /\ reuse' = FALSE
           /\ op' = "reseed"
           /\ arg' = <<k, n>>
           /\ out' = r.out
           /\ err' = r.err
           /\ UNCHANGED <<steps, cvars, gvars, ub, pvars>>

CsprngNext ==
    \/ CsNext
    \/ CsFill
    \/ CsDiscard
    \/ CsJump
    \/ CsLongJump
    \/ CsReseed

SpecCsprng == CsprngInit /\ [][CsprngNext]_vars

---------------------------------------------------------------------------
(* SpecUnbiased: one call of unbiased(lo, hi) on a csprng or a              *)
(* random_device, for every pair of bounds and every value a draw may have. *)
(* ub is [engine, lo, hi, rejected, call]: the arguments as given, whether  *)
(* a draw has been rejected, and the locals of the call.                    *)

UnbiasedEngines == {"csprng", "random_device"}

\* first arguments of unbiased; the second argument takes every word value
UnbiasedFirstArgs == {0, WORD_MAX}

\* the locals before the call has run
unbiased_entry ==
    [pc |-> "entry", lower_bound |-> 0, range |-> 0, t |-> 0,
     l |-> 0, h |-> 0, multiplied |-> FALSE, result |-> 0]

UnbiasedInit ==
    /\ CounterIdle
    /\ PairIdle
    /\ HistoryIdle
    /\ NasamIdle
    /\ CsprngIdle
    /\ \E e \in UnbiasedEngines, lo \in UnbiasedFirstArgs, hi \in Word :
          ub = [engine |-> e, lo |-> lo, hi |-> hi, rejected |-> FALSE,
                call |-> unbiased_entry]

UbStep(u) ==
    /\ ub' = [ub EXCEPT !.call = u, !.rejected = (ub.rejected \/ u.pc = "loop")]
    /\ UNCHANGED <<cvars, hvars, gvars, svars, pvars>>

CsprngUnbiased ==
    /\ ub.engine = "csprng"
    /\ ub.call.pc = "entry"
    /\ \E x \in Word : UbStep(csprng_unbiased(ub.lo, ub.hi, x))

CsprngUnbiasedLoop ==
    /\ ub.engine = "csprng"
    /\ ub.call.pc = "loop"
    /\ \E x \in Word : UbStep(csprng_unbiased_loop(ub.call, x))

RandomDeviceUnbiased ==
    /\ ub.engine = "random_device"
    /\ ub.call.pc = "entry"
    /\ \E x \in Word : UbStep(random_device_unbiased(ub.lo, ub.hi, x))

RandomDeviceUnbiasedLoop ==
    /\ ub.engine = "random_device"
    /\ ub.call.pc = "loop"
    /\ \E x \in Word : UbStep(random_device_unbiased_loop(ub.call, x))

UnbiasedNext ==
    \/ CsprngUnbiased
    \/ CsprngUnbiasedLoop
    \/ RandomDeviceUnbiased
    \/ RandomDeviceUnbiasedLoop

SpecUnbiased == UnbiasedInit /\ [][UnbiasedNext]_vars

---------------------------------------------------------------------------
(* SpecFastUnbiased: one call of unbiased(lo, hi) on a fast and one on a    *)
(* csprng, both given the same draws.  ub is [engine, lo, hi, rejected,     *)
(* call, twin]: call the locals of fast::unbiased, twin those of            *)
(* csprng::unbiased.                                                        *)

FastUnbiasedInit ==
    /\ CounterIdle
    /\ PairIdle
    /\ HistoryIdle
    /\ NasamIdle
    /\ CsprngIdle
    /\ \E lo \in UnbiasedFirstArgs, hi \in Word :
          ub = [engine |-> "fast", lo |-> lo, hi |-> hi, rejected |-> FALSE,
                call |-> unbiased_entry, twin |-> unbiased_entry]

FastUbStep(u, w) ==
    /\ ub' = [ub EXCEPT !.call = u, !.twin = w,
                        !.rejected = (ub.rejected \/ u.pc = "loop" \/ w.pc = "loop")]
    /\ UNCHANGED <<cvars, hvars, gvars, svars, pvars>>

\* both calls up to their first draw
FastUnbiased ==
    /\ ub.call.pc = "entry"
    /\ \E x \in Word :
          FastUbStep(fast_unbiased(ub.lo, ub.hi, x), csprng_unbiased(ub.lo, ub.hi, x))

\* the next draw, taken by each call that is still in its loop
FastUnbiasedLoop ==
    /\ ub.call.pc = "loop" \/ ub.twin.pc = "loop"
    /\ \E x \in Word :
          FastUbStep(IF ub.call.pc = "loop" THEN fast_unbiased_loop(ub.call, x) ELSE ub.call,
                     IF ub.twin.pc = "loop" THEN csprng_unbiased_loop(ub.twin, x) ELSE ub.twin)

FastUnbiasedNext == FastUnbiased \/ FastUnbiasedLoop

SpecFastUnbiased == FastUnbiasedInit /\ [][FastUnbiasedNext]_vars

---------------------------------------------------------------------------
(* SpecCsprngEq: operator== and operator!= applied to two csprng objects    *)
(* whose fields are drawn independently, stale buffers included.            *)

\* a key whose word i is v and whose other words are zero
KeyAt(i, v) == [j \in 1 .. KEY_WORDS |-> IF j = i THEN v ELSE 0]

EqKeys == { KeyOf(0) } \cup { KeyAt(i, v) : i \in {1, KEY_WORDS}, v \in {1, WORD_MAX} }

EqBuffers == { ZeroBlock, permute_block(KeyOf(0), NonceOf(0), 0) }

EqObjects ==
    [key : EqKeys, nonce : Nonces, block_counter : {1, 2}, buffer : EqBuffers,
     word_index : {0, WORDS_PER_BLOCK}]

CsprngEqInit ==
    /\ CounterIdle
    /\ HistoryIdle
    /\ NasamIdle
    /\ CsprngIdle
    /\ UnbiasedIdle
    /\ eng1 \in EqObjects
    /\ eng2 \in EqObjects
    /\ pre1 = <<>>

EqCall(name, result) ==
    /\ op = "none"
    /\ op' = name
    /\ out' = <<result>>
    /\ UNCHANGED <<arg, err, steps, cvars, gvars, svars, ub, pvars>>

EqCompare == EqCall("eq", csprng_eq(eng1, eng2))

EqCompareNe == EqCall("ne", csprng_ne(eng1, eng2))

CsprngEqNext == EqCompare \/ EqCompareNe

SpecCsprngEq == CsprngEqInit /\ [][CsprngEqNext]_vars

---------------------------------------------------------------------------
(* SpecCsprngPair: two csprng objects, each constructed from its own key,   *)
(* nonce and starting counter, and then given at most MaxSteps calls of     *)
(* next, discard and reseed between them.                                   *)

PairStartCounters == {0, 1}

PairDiscardArgs == {1, WORDS_PER_BLOCK, WORDS_PER_BLOCK + 1}

CsprngPairInit ==
    /\ CounterIdle
    /\ HistoryIdle
    /\ NasamIdle
    /\ CsprngIdle
    /\ UnbiasedIdle
    /\ \E k \in Keys, n \in Nonces, c \in PairStartCounters : eng1 = csprng_ctor(k, n, c).cs
    /\ \E k \in Keys, n \in Nonces, c \in PairStartCounters : eng2 = csprng_ctor(k, n, c).cs
    /\ pre1 = <<>>

\* one call on the first object
PairCallFirst(r) ==
    /\ steps < MaxSteps
    /\ steps' = steps + 1
    /\ eng1' = r.cs
    /\ UNCHANGED <<eng2, pre1, op, arg, out, err, cvars, gvars, svars, ub>>

\* one call on the second object
PairCallSecond(r) ==
    /\ steps < MaxSteps
    /\ steps' = steps + 1
    /\ eng2' = r.cs
    /\ UNCHANGED <<eng1, pre1, op, arg, out, err, cvars, gvars, svars, ub>>

PairNextFirst == PairCallFirst(csprng_next(eng1))

PairNextSecond == PairCallSecond(csprng_next(eng2))

PairDiscardFirst == \E n \in PairDiscardArgs : PairCallFirst(csprng_discard(eng1, n))

PairDiscardSecond == \E n \in PairDiscardArgs : PairCallSecond(csprng_discard(eng2, n))

PairReseedFirst == \E k \in Keys, n \in Nonces : PairCallFirst(csprng_reseed(eng1, k, n))

PairReseedSecond == \E k \in Keys, n \in Nonces : PairCallSecond(csprng_reseed(eng2, k, n))

CsprngPairNext ==
    \/ PairNextFirst
    \/ PairNextSecond
    \/ PairDiscardFirst
    \/ PairDiscardSecond
    \/ PairReseedFirst
    \/ PairReseedSecond

SpecCsprngPair == CsprngPairInit /\ [][CsprngPairNext]_vars

---------------------------------------------------------------------------
(* SpecCsprngLife: one csprng object eng1 through its life: calls of next,  *)
(* discard and reseed, operator>> from good and bad streams, a round trip   *)
(* through operator<< and operator>> into a second object eng2, a move into *)
(* eng2, and the destructor, after which nothing is called on eng1.  At     *)
(* most MaxSteps operations.                                                *)

LifeStartCounters == {0, COUNTER_MAX - 1}

LifeDiscardArgs == {3, WORDS_PER_BLOCK}

\* the engine the good records are written from
LifeWritten == csprng_ctor(KeyOf(1), NonceOf(1), 1).cs

\* streams given to operator>>: two written by operator<< (mid-block and at the end
\* of a block), and streams that are damaged or end early
LifeRecords ==
    LET mid == csprng_write(csprng_discard(LifeWritten, 3).cs)
        full == csprng_write(csprng_discard(LifeWritten, WORDS_PER_BLOCK).cs)
    IN { mid, full,
         [mid EXCEPT !.magic = "csprnG"],
         [mid EXCEPT !.version = VERSION + 1],
         [mid EXCEPT !.word_index = WORDS_PER_BLOCK + 1],
         [mid EXCEPT !.block_counter = 0],
         [full EXCEPT !.block_counter = 0] }
       \cup { [mid EXCEPT !.fields = f] : f \in {0, 1, 3, RECORD_FIELDS - 1} }

CsprngLifeInit ==
    /\ CounterIdle
    /\ NasamIdle
    /\ CsprngIdle
    /\ UnbiasedIdle
    /\ \E k \in Keys, c \in LifeStartCounters : eng1 = csprng_ctor(k, NonceOf(0), c).cs
    /\ eng2 = csprng_ctor(KeyOf(0), NonceOf(1), 0).cs
    /\ pre1 = <<>>
    /\ op = "ctor"
    /\ arg = <<>>
    /\ out = <<>>
    /\ err = "none"
    /\ steps = 0

\* one operation: what it leaves in eng1 and in eng2, and the error it threw
LifeCall(name, first, second, e) ==
    /\ steps < MaxSteps
    /\ op # "destroy"
    /\ steps' = steps + 1
    /\ op' = name
    /\ err' = e
    /\ eng1' = first
    /\ eng2' = second
    /\ pre1' = eng1
    /\ UNCHANGED <<arg, out, cvars, gvars, svars, ub>>

LifeNext == LET r == csprng_next(eng1) IN LifeCall("next", r.cs, eng2, r.err)

LifeDiscard ==
    \E n \in LifeDiscardArgs :
        LET r == csprng_discard(eng1, n) IN LifeCall("discard", r.cs, eng2, r.err)

LifeReseed ==
    LET r == csprng_reseed(eng1, KeyOf(1), NonceOf(1)) IN LifeCall("reseed", r.cs, eng2, r.err)

\* is >> eng1
LifeRead ==
    \E rec \in LifeRecords :
        LET r == csprng_read(eng1, rec) IN LifeCall("read", r.cs, eng2, r.err)

\* os << eng1, then is >> eng2 from what was written
LifeRoundTrip ==
    LET r == csprng_read(eng2, csprng_write(eng1)) IN LifeCall("roundtrip", eng1, r.cs, r.err)

\* csprng eng2(std::move(eng1))
LifeMoveConstruct ==
    LET m == csprng_move(eng1) IN LifeCall("move_construct", m.source, m.target, "none")

\* eng2 = std::move(eng1)
LifeMoveAssign ==
    LET m == csprng_move(eng1) IN LifeCall("move_assign", m.source, m.target, "none")

\* eng1.~csprng()
LifeDestroy == LifeCall("destroy", csprng_destroy(eng1), eng2, "none")

CsprngLifeNext ==
    \/ LifeNext
    \/ LifeDiscard
    \/ LifeReseed
    \/ LifeRead
    \/ LifeRoundTrip
    \/ LifeMoveConstruct
    \/ LifeMoveAssign
    \/ LifeDestroy

SpecCsprngLife == CsprngLifeInit /\ [][CsprngLifeNext]_vars

---------------------------------------------------------------------------
(* Properties *)

\* the object after k calls of operator()()
RECURSIVE NextTimes(_, _)
NextTimes(g, k) ==
    IF k = 0 THEN g
    ELSE LET r == Nasam_next(g)
         IN IF r.out \in Word THEN NextTimes(r.g, k - 1) ELSE r.g

\* the first k values operator()() returns
RECURSIVE NextValues(_, _)
NextValues(g, k) ==
    IF k = 0 THEN <<>>
    ELSE LET r == Nasam_next(g) IN <<r.out>> \o NextValues(r.g, k - 1)

\* C1: discard(n) then next() returns what n + 1 calls of next() on a copy of the
\* object return last, from every state with the cursor in [0, 8] and for every n.
C1_DiscardThenNext ==
    (op = "discard" /\ CursorInRange(gpre)) =>
        Nasam_next(gen).out = Nasam_next(NextTimes(gpre, arg)).out

\* a discard from the middle of a block that skipped whole blocks
C1_Witness ==
    /\ op = "discard"
    /\ gpre.buffer_position \in 1 .. (BUFFERSIZE - 1)
    /\ arg >= (BUFFERSIZE - gpre.buffer_position) + 2 * BUFFERSIZE
    /\ gen.counter.state # gpre.counter.state

\* the number of outputs compared after a seeding
SeedOutputs == 2 * BUFFERSIZE + 1

\* the outputs of a newly constructed Nasam1024(seed), tabulated once
SeededOutputs ==
    [seed \in Seeds |->
        [garbage \in GarbageBuffers |->
            NextValues(Nasam_ctor_seed(seed, garbage), SeedOutputs)]]

\* C6: an engine that has just executed reseed(s), the seed constructor or seed(s)
\* gives the outputs of a newly constructed Nasam1024(s), whatever its counter,
\* buffer and cursor were before and whatever the new object's buffer memory held.
C6_SeedDeterministic ==
    (op \in {"reseed", "seed", "ctor_seed"}) =>
        \A garbage \in GarbageBuffers :
            NextValues(gen, SeedOutputs) = SeededOutputs[arg][garbage]

\* a reseed of an engine in the middle of a block whose counter had moved on
C6_Witness ==
    /\ op = "reseed"
    /\ gpre.buffer_position \in 1 .. (BUFFERSIZE - 1)
    /\ gpre.counter.state # gen.counter.state
    /\ gen.buffer # Limbs(BUFFERSIZE, ZeroOf)
    /\ gen.buffer # Limbs(BUFFERSIZE, RampOf)


\* C7: big_jump is additive in its step.  Once ctr has taken big_jump(stepA) and
\* big_jump(stepB) and ref has taken big_jump(stepA + stepB mod 2^(width)), the
\* two counters hold the same state.
C7_BigJumpAdditive ==
    (cpc = 2 /\ rpc = 1) => ctr.state = ref.state

\* both paths done, with a zero limb in a step and a sum that wrapped the top limb
C7_Witness ==
    /\ cpc = 2
    /\ rpc = 1
    /\ \E i \in 1 .. COUNTERSIZE : stepA[i] = 0 /\ stepB[i] # 0
    /\ stepA[COUNTERSIZE] + stepB[COUNTERSIZE] >= WordMod
    /\ ctr.state # Limbs(COUNTERSIZE, ZeroOf)

\* C8: the increment built at construction is odd and no increment changes it;
\* from any start, the counter is back at its start for the first time after
\* exactly 2^(total width) increments.
C8_FullPeriod ==
    /\ ctr.increment = ref.increment
    /\ ctr.increment[1] % 2 = 1
    /\ (cpc > 0 => ((ctr.state = ref.state) <=> (cpc = PeriodSize)))

\* the counter has walked its whole cycle and is back at its start
C8_Witness ==
    /\ Len(ctr.state) = PeriodLimbs
    /\ cpc = PeriodSize
    /\ ctr.state = ref.state
    /\ ref.state # Limbs(PeriodLimbs, ZeroOf)

\* the object after k successful calls of operator(), or after the first that throws
RECURSIVE csprng_next_times(_, _)
csprng_next_times(c, k) ==
    IF k = 0 THEN [cs |-> c, err |-> "none"]
    ELSE LET r == csprng_next(c)
         IN IF r.err = "none" THEN csprng_next_times(r.cs, k - 1)
            ELSE [cs |-> r.cs, err |-> r.err]

\* C2: for every engine state and every n, discard(n) followed by next() returns the
\* value that n + 1 consecutive calls of next() return last, whenever neither path
\* overflows the block counter; jump() and long_jump() are discards of fixed n.
C2_CsDiscardThenNext ==
    (op \in {"discard", "jump", "long_jump"} /\ err = "none") =>
        LET seq == csprng_next_times(cspre, arg)
            a == csprng_next(cs)
        IN (a.err = "none" /\ seq.err = "none" /\ csprng_next(seq.cs).err = "none") =>
               a.out = csprng_next(seq.cs).out

C2_Witness ==
    /\ op = "discard"
    /\ err = "none"
    /\ cspre.word_index \in 1 .. (WORDS_PER_BLOCK - 1)
    /\ arg > (WORDS_PER_BLOCK - cspre.word_index) + WORDS_PER_BLOCK
    /\ cs.word_index \in 1 .. (WORDS_PER_BLOCK - 1)
    /\ cs.block_counter > cspre.block_counter + 1
    /\ csprng_next(cs).err = "none"
    /\ csprng_next_times(cspre, arg + 1).err = "none"

\* C3: while no call has failed since the engine was constructed with (k, n, c), the
\* value next() returns at stream position j (the count of outputs returned or
\* skipped before it) is word j mod 8 of the block of (k, n, c + j div 8), and the
\* counters blocks are generated for are strictly increasing.
C3_OutputIsBlockWord ==
    clean =>
        /\ (op = "next" /\ err = "none") =>
               out = <<u64(permute_block(origin.key, origin.nonce,
                                         origin.counter + (pos - 1) \div WORDS_PER_BLOCK),
                           (pos - 1) % WORDS_PER_BLOCK)>>
        /\ \A i \in 1 .. (Len(gens) - 1) : gens[i] < gens[i + 1]

C3_Witness ==
    /\ op = "next"
    /\ clean
    /\ err = "none"
    /\ origin.counter > 0
    /\ pos = WORDS_PER_BLOCK + 1
    /\ Len(gens) = 2
    /\ cs.word_index = 1

\* C4: once "key/nonce pair exhausted" has been reported, no later call of next, fill,
\* discard, jump or long_jump returns output or generates a block until the engine is
\* reseeded, so no (key, nonce, counter) triple has two blocks generated.
C4_ExhaustionIsFinal ==
    /\ (exh = 2 /\ op \in {"next", "fill", "discard", "jump", "long_jump"}) =>
           (out = <<>> /\ Len(gens) = 1)
    /\ ~reuse

\* C5: a discard that would carry the block counter past its maximum fails with the
\* discard-overflow error and leaves the engine exactly as it was before the call.
C5_DiscardOverflowAtomic ==
    (op \in {"discard", "jump", "long_jump"} /\ err # "none") =>
        (err = "discard_overflow" /\ cs = cspre)


Min(a, b) == IF a < b THEN a ELSE b

Max(a, b) == IF a < b THEN b ELSE a

\* C9: unbiased(lo, hi) of csprng and of random_device returns a value between
\* min(lo, hi) and max(lo, hi), for every pair of bounds: swapped bounds, equal bounds
\* and the full range included.
C9_UnbiasedInRange ==
    ub.call.pc = "done" =>
        (Min(ub.lo, ub.hi) <= ub.call.result /\ ub.call.result <= Max(ub.lo, ub.hi))

C9_Witness ==
    /\ ub.call.pc = "done"
    /\ ub.lo > ub.hi + 2
    /\ ub.rejected
    /\ ub.call.result > ub.hi
    /\ ub.call.result < ub.lo

\* what the step the call stands before makes of the draw x
UnbiasedStep(u, x) ==
    IF u.engine = "csprng"
    THEN IF u.call.pc = "entry" THEN csprng_unbiased(u.lo, u.hi, x)
         ELSE csprng_unbiased_loop(u.call, x)
    ELSE IF u.call.pc = "entry" THEN random_device_unbiased(u.lo, u.hi, x)
         ELSE random_device_unbiased_loop(u.call, x)

\* the draw values with which the call returns v from where it stands
AcceptedFor(u, v) ==
    { x \in Word : LET r == UnbiasedStep(u, x) IN r.pc = "done" /\ r.result = v }

\* R = hi - lo + 1 of the ordered bounds, not wrapped
RangeOf(u) == Max(u.lo, u.hi) - Min(u.lo, u.hi) + 1

\* C10: with the draw ranging over all 2^w words, every element of [lo, hi] is
\* returned for the same number of draw values, 2^w div R, at the first draw and at
\* every redraw; and a draw whose product was taken is rejected exactly when the low
\* word of the product is below (2^w - R) mod R.
C10_UnbiasedUniform ==
    /\ ub.call.pc \in {"entry", "loop"} =>
           \A v \in Min(ub.lo, ub.hi) .. Max(ub.lo, ub.hi) :
               Cardinality(AcceptedFor(ub, v)) = WordMod \div RangeOf(ub)
    /\ ub.call.multiplied =>
           ((ub.call.pc = "loop") <=> (ub.call.l < (WordMod - RangeOf(ub)) % RangeOf(ub)))

C10_Witness ==
    /\ ub.call.pc = "done"
    /\ ub.rejected
    /\ ub.call.multiplied
    /\ WordMod % RangeOf(ub) # 0
    /\ ub.call.l >= ub.call.t
    /\ ub.call.l < ub.call.range
    /\ ub.lo > 0
    /\ ub.call.result = Max(ub.lo, ub.hi)


\* C11: two engines with equal key, nonce, block_counter and word_index, the index
\* being 8, compare equal whatever their buffers hold; two engines whose keys differ
\* in a word never compare equal, whatever the other fields are.
C11_EqualityFields ==
    op = "eq" =>
        /\ (/\ eng1.key = eng2.key
            /\ eng1.nonce = eng2.nonce
            /\ eng1.block_counter = eng2.block_counter
            /\ eng1.word_index = WORDS_PER_BLOCK
            /\ eng2.word_index = WORDS_PER_BLOCK) => out = <<TRUE>>
        /\ eng1.key # eng2.key => out = <<FALSE>>

C11_Witness ==
    /\ op = "eq"
    /\ eng1.key = eng2.key
    /\ eng1.key # KeyOf(0)
    /\ eng1.nonce = eng2.nonce
    /\ eng1.block_counter = eng2.block_counter
    /\ eng1.word_index = WORDS_PER_BLOCK
    /\ eng2.word_index = WORDS_PER_BLOCK
    /\ eng1.buffer # eng2.buffer
    /\ out = <<TRUE>>


\* the outputs compared as the future of an engine
FutureLength == 2 * WORDS_PER_BLOCK + 1

\* what the next k calls of operator() do: the value returned or the error thrown
RECURSIVE csprng_future(_, _)
csprng_future(c, k) ==
    IF k = 0 THEN <<>>
    ELSE LET r == csprng_next(c)
         IN <<[err |-> r.err, out |-> r.out]>> \o csprng_future(r.cs, k - 1)

\* C12: operator== returns true if and only if the two generators produce identical
\* future output, over all pairs of engine states reached from constructors by
\* next, discard and reseed.
C12_EqualIffSameFuture ==
    csprng_eq(eng1, eng2) <=>
        (csprng_future(eng1, FutureLength) = csprng_future(eng2, FutureLength))


\* C13: for every engine state with word_index in [0, 8] and block_counter >= 1,
\* reading back what operator<< wrote yields an engine that compares equal to the
\* original and has the same future outputs; a record with word_index < 8 and
\* block_counter = 0 is rejected with an error.
C13_RoundTrip ==
    op = "roundtrip" =>
        /\ (eng1.word_index \in 0 .. WORDS_PER_BLOCK /\ eng1.block_counter >= 1) =>
               /\ err = "none"
               /\ csprng_eq(eng2, eng1)
               /\ csprng_future(eng2, FutureLength) = csprng_future(eng1, FutureLength)
        /\ (eng1.word_index < WORDS_PER_BLOCK /\ eng1.block_counter = 0) => err # "none"

\* C14: whenever operator>> reports an error, the target's key, nonce,
\* block_counter, word_index and buffer are what they were before the call.
C14_FailedReadKeepsState ==
    (op = "read" /\ err # "none") => eng1 = pre1

\* C15: after a move the source no longer holds the key and cannot produce the
\* keystream the destination produces, so no two objects hold the same live
\* (key, nonce, block_counter) state.
C15_MoveLeavesSourceUnusable ==
    op \in {"move_construct", "move_assign"} =>
        /\ eng1.key # eng2.key
        /\ csprng_future(eng1, FutureLength) # csprng_future(eng2, FutureLength)
        /\ <<eng1.key, eng1.nonce, eng1.block_counter>>
               # <<eng2.key, eng2.nonce, eng2.block_counter>>

\* C16: after the destructor every word of the key, the nonce and the buffer is
\* zero, from whatever state the engine was destroyed in.
C16_DestructorErases ==
    op = "destroy" =>
        /\ eng1.key = KeyOf(0)
        /\ eng1.nonce = NonceOf(0)
        /\ \A i \in 0 .. (WORDS_PER_BLOCK - 1) : u64(eng1.buffer, i) = u64(ZeroBlock, i)

C16_Witness ==
    /\ op = "destroy"
    /\ pre1.key # KeyOf(0)
    /\ pre1.nonce # NonceOf(0)
    /\ pre1.buffer # ZeroBlock
    /\ pre1.word_index \in 1 .. (WORDS_PER_BLOCK - 1)
    /\ eng1.key = KeyOf(0)
    /\ eng1.buffer = ZeroBlock


\* C17: reseed(k, n) from any prior state leaves the engine in the state of a freshly
\* constructed csprng(k, n, 0): key k, nonce n, the block of (k, n, 0) in the buffer,
\* word_index 0 and block_counter 1; nothing of the old state is left.
C17_ReseedIsFresh ==
    op = "reseed" =>
        /\ err = "none"
        /\ cs = csprng_ctor(arg[1], arg[2], 0).cs
        /\ cs.key = arg[1]
        /\ cs.nonce = arg[2]
        /\ cs.buffer = permute_block(arg[1], arg[2], 0)
        /\ cs.word_index = 0
        /\ cs.block_counter = 1

C17_Witness ==
    /\ op = "reseed"
    /\ cspre.key # arg[1]
    /\ cspre.nonce # arg[2]
    /\ cspre.block_counter > 2
    /\ cspre.word_index \in 1 .. (WORDS_PER_BLOCK - 1)
    /\ cs.block_counter = 1


\* the keystream position of the next output of an engine whose buffer is the block
\* before block_counter
StreamPos(c) == (c.block_counter - 1) * WORDS_PER_BLOCK + c.word_index

\* C18: from an engine whose stream position leaves room for one more of the
\* JumpStreams windows, jump() returns without error and the stream position is
\* JumpDistance further; the same for long_jump() with LongJumpStreams windows of
\* LongJumpDistance.  From a starting counter of 0 the position after the k-th jump is
\* k * JumpDistance, and as the distances are whole blocks the windows of different
\* streams use disjoint block counters.
C18_JumpStreams ==
    /\ (op = "jump" /\ StreamPos(cspre) >= 0
        /\ StreamPos(cspre) <= (JumpStreams - 2) * JumpDistance) =>
           /\ err = "none"
           /\ StreamPos(cs) = StreamPos(cspre) + JumpDistance
           /\ cs.key = cspre.key /\ cs.nonce = cspre.nonce
    /\ (op = "long_jump" /\ StreamPos(cspre) >= 0
        /\ StreamPos(cspre) <= (LongJumpStreams - 2) * LongJumpDistance) =>
           /\ err = "none"
           /\ StreamPos(cs) = StreamPos(cspre) + LongJumpDistance
           /\ cs.key = cspre.key /\ cs.nonce = cspre.nonce
    /\ clean => StreamPos(cs) = origin.counter * WORDS_PER_BLOCK + pos
    /\ JumpDistance % WORDS_PER_BLOCK = 0
    /\ LongJumpDistance % WORDS_PER_BLOCK = 0

C18_Witness ==
    /\ op = "jump"
    /\ err = "none"
    /\ clean
    /\ origin.counter = 0
    /\ pos = (JumpStreams - 1) * JumpDistance
    /\ StreamPos(cspre) = (JumpStreams - 2) * JumpDistance
    /\ cs.block_counter = COUNTER_MAX


\* n * b as wide integers, by doubling and adding
RECURSIVE VecScale(_, _)
VecScale(b, n) ==
    IF n = 0 THEN [i \in 1 .. Len(b) |-> 0]
    ELSE LET half == VecScale(b, n \div 2)
             twice == VecAdd(half, half)
         IN IF n % 2 = 1 THEN VecAdd(twice, b) ELSE twice

\* a + n * b as wide integers
VecAddTimes(a, b, n) == VecAdd(a, VecScale(b, n))

\* C19: once ctr has taken operator+=(n) and ref has taken operator++ n times from
\* the same state, both hold (state + n * increment) mod 2^(width); the increment is
\* untouched; with n = 0 the counter is the one it was.
C19_AdvanceIsRepeatedIncrement ==
    /\ (cpc = 1 /\ rpc = stepA[1]) =>
          /\ ctr.state = ref.state
          /\ ctr.state = VecAddTimes(stepB, ctr.increment, stepA[1])
          /\ ctr.increment = ref.increment
    /\ (cpc = 1 /\ stepA[1] = 0) => ctr.state = stepB
    /\ (cpc = 1 /\ stepA[1] = 1) => ctr = increment_once([ctr EXCEPT !.state = stepB])

\* both paths done for an n of the general path, with products that need their high
\* word and a sum that wrapped past the top limb
C19_Witness ==
    /\ cpc = 1
    /\ stepA[1] = WORD_MAX
    /\ rpc = WORD_MAX
    /\ stepB = Limbs(COUNTERSIZE, MaxOf)
    /\ \E i \in 1 .. COUNTERSIZE : umul128(ctr.increment[i], stepA[1]).hi # 0
    /\ ctr.state # stepB

\* the m-th value (m >= 0) the characterization gives for an engine whose counter
\* state is S: the mix of limb 8 + (m mod 8) of S + (m div 8 + 1) * increment
CharacterizedOutput(S, increment, m) ==
    nasam(VecAddTimes(S, increment, (m \div BUFFERSIZE) + 1)[BUFFERSIZE + (m % BUFFERSIZE) + 1])

\* C20: in a run of next() calls that started on an engine with an empty buffer and
\* counter state S, the m-th value returned (m >= 0) is the mix of limb
\* 8 + (m mod 8) of S + (m div 8 + 1) * increment, the counter has by then been
\* incremented m div 8 + 1 times, and the cursor is (m mod 8) + 1.
C20_OutputCharacterization ==
    op = "next" =>
        LET m == steps - 1
            S == gpre.counter.state
        IN /\ is_buffer_empty(gpre)
           /\ out = <<CharacterizedOutput(S, gpre.counter.increment, m)>>
           /\ gen.counter.state =
                 VecAddTimes(S, gpre.counter.increment, (m \div BUFFERSIZE) + 1)
           /\ gen.counter.increment = gpre.counter.increment
           /\ gen.buffer_position = (m % BUFFERSIZE) + 1

\* the last value of a run, the first of the third block, which is not the mix of
\* the matching lower limb, from a counter that was moved before the run
C20_Witness ==
    /\ op = "next"
    /\ steps = StreamLength
    /\ gen.buffer_position = 1
    /\ out[1] # nasam(gen.counter.state[1])
    /\ gpre.counter.state = Limbs(COUNTERSIZE, MaxOf)

\* the operations of Nasam1024 that delegate to Counter_1024::big_jump
JumpOps == {"big_jump", "jump64", "jump128", "jump192", "jump256", "jump", "long_jump"}

\* C21: a jump of the statistical engine changes only the counter state: buffer,
\* cursor and increment are what they were, so with the cursor at c in [0, 8] the
\* next 8 - c values are the buffered ones of before the jump and the value after
\* them is the mix of limb 8 of the counter after the jump plus one increment.
C21_JumpKeepsBuffer ==
    op \in JumpOps =>
        /\ gen.buffer = gpre.buffer
        /\ gen.buffer_position = gpre.buffer_position
        /\ gen.counter.increment = gpre.counter.increment
        /\ CursorInRange(gpre) =>
              LET c == gpre.buffer_position
                  values == NextValues(gen, BUFFERSIZE - c + 1)
              IN /\ \A i \in 1 .. (BUFFERSIZE - c) : values[i] = gpre.buffer[c + i]
                 /\ values[BUFFERSIZE - c + 1] =
                       nasam(VecAdd(gen.counter.state, gen.counter.increment)[BUFFERSIZE + 1])

\* a jump in the middle of a block that moved the counter, the buffered value next
\* in line not being the one the counter after the jump would give
C21_Witness ==
    /\ op \in JumpOps
    /\ gpre.buffer_position \in 1 .. (BUFFERSIZE - 1)
    /\ gen.counter.state # gpre.counter.state
    /\ gen.buffer[gen.buffer_position + 1] #
          nasam(VecAdd(gen.counter.state, gen.counter.increment)[BUFFERSIZE + gen.buffer_position + 1])

\* C22: after every public operation of the statistical engine the cursor is in
\* [0, 8] and the values next() returns up to the next refill are buffer[cursor..8).
C22_CursorInvariant ==
    /\ CursorInRange(gen)
    /\ LET c == gen.buffer_position
       IN \A i \in 1 .. (BUFFERSIZE - c) :
             NextValues(gen, BUFFERSIZE - c)[i] = gen.buffer[c + i]

\* the size of a block in bytes
BlockBytes == BUFFERSIZE * WORDBYTES

\* ceil(n / 64): the blocks n bytes take
BlocksFor(n) == (n + BlockBytes - 1) \div BlockBytes

\* C23: bulk(x, n) from any state advances the counter by ceil(n / 64) increments,
\* writes n bytes, byte j (from 0) being byte j mod 8 of the mix of limb
\* 8 + (j mod 64) div 8 of the counter after j div 64 + 1 increments, and returns
\* with the cursor at 8.
C23_BulkFill ==
    op = "bulk" =>
        LET S == gpre.counter.state
            increment == gpre.counter.increment
        IN /\ gen.counter.state = VecAddTimes(S, increment, BlocksFor(arg))
           /\ gen.counter.increment = increment
           /\ gen.buffer_position = BUFFERSIZE
           /\ Len(out) = arg
           /\ \A j \in 0 .. (arg - 1) :
                 out[j + 1] =
                    ByteOf(CharacterizedOutput(S, increment, j \div WORDBYTES), j % WORDBYTES)

\* a bulk of more than one block with a partial last chunk, called with unread values
\* in the buffer whose first is not the first word written
C23_Witness ==
    /\ op = "bulk"
    /\ arg > BlockBytes
    /\ arg % BlockBytes # 0
    /\ gpre.buffer_position \in 1 .. (BUFFERSIZE - 1)
    /\ out[1] # ByteOf(gpre.buffer[gpre.buffer_position + 1], 0)
    /\ out[BlockBytes + 1] # out[1]

\* C24: nasam is a bijection on words: two words with the same mix are the same word.
C24_NasamBijective ==
    (op = "nasam" /\ out[1] = out[2]) => arg[1] = arg[2]

\* C25: fast::unbiased(lo, hi) returns a value between min(lo, hi) and max(lo, hi),
\* and the value csprng::unbiased returns for the same bounds and the same draws.
C25_FastUnbiasedAsCsprng ==
    /\ ub.call.pc = "done" =>
          (Min(ub.lo, ub.hi) <= ub.call.result /\ ub.call.result <= Max(ub.lo, ub.hi))
    /\ (ub.call.pc = "done" /\ ub.twin.pc = "done") => ub.call.result = ub.twin.result

\* the object after k calls of fast::operator()()
RECURSIVE fast_next_times(_, _)
fast_next_times(f, k) == IF k = 0 THEN f ELSE fast_next_times(fast_next(f).f, k - 1)

\* the first k values fast::operator()() returns
RECURSIVE fast_future(_, _)
fast_future(f, k) ==
    IF k = 0 THEN <<>>
    ELSE LET r == fast_next(f) IN <<r.out>> \o fast_future(r.f, k - 1)

\* C26: on a fast engine with its index anywhere in [0, 8], discard(n) then next()
\* returns what n + 1 calls of next() return last; jump() and long_jump() are the
\* discards of 2^32 and 2^48 values.
C26_FastDiscardThenNext ==
    op \in {"discard", "jump", "long_jump"} =>
        fast_next(eng1).out = fast_next(fast_next_times(pre1, arg)).out

\* C30: two fast engines that compare equal return the same values from then on.
C30_FastEqualitySound ==
    fast_eq(eng1, eng2) =>
        fast_future(eng1, FutureLength) = fast_future(eng2, FutureLength)

\* the buffer of c, if any of it is unread, is the block made from the key and nonce
\* of c and the counter before block_counter
BufferConsistent(c) ==
    /\ c.word_index \in 0 .. WORDS_PER_BLOCK
    /\ c.word_index < WORDS_PER_BLOCK =>
          c.buffer = permute_block(c.key, c.nonce, (c.block_counter - 1) % CounterMod)

\* C27: in every state a cryptographic engine reaches through its constructors, next,
\* discard, reseed and deserialization, failing calls included, word_index is in
\* [0, 8] and a buffer with unread words is the block of the current key, nonce and
\* block_counter - 1.
C27_BufferConsistency ==
    op # "destroy" => BufferConsistent(eng1)

\* C28 as stated: the engine after discard(n) compares equal (cursor, counter state
\* and buffer) to a copy of the engine before it on which next() was called n times.
C28_DiscardStateEqual ==
    (op = "discard" /\ CursorInRange(gpre)) => Nasam_eq(gen, NextTimes(gpre, arg))

\* discard(n) went past the buffered values and stopped on a block boundary
DiscardEndsOnBoundary(g, n) ==
    /\ n > BUFFERSIZE - g.buffer_position
    /\ (n - (BUFFERSIZE - g.buffer_position)) % BUFFERSIZE = 0

\* C28 amended: the engine after discard(n) and the copy after n calls of next()
\* return the same values from then on; they compare equal unless the discard went
\* past the buffer and stopped on a block boundary, where discard has already
\* refilled (cursor 0, counter one increment further) and the copy has not (cursor 8).
C28_DiscardStateOrFuture ==
    (op = "discard" /\ CursorInRange(gpre)) =>
        LET copy == NextTimes(gpre, arg)
        IN /\ NextValues(gen, SeedOutputs) = NextValues(copy, SeedOutputs)
           /\ ~DiscardEndsOnBoundary(gpre, arg) => Nasam_eq(gen, copy)
           /\ DiscardEndsOnBoundary(gpre, arg) =>
                 /\ gen.buffer_position = 0
                 /\ copy.buffer_position = BUFFERSIZE
                 /\ gen.counter.state = VecAdd(copy.counter.state, copy.counter.increment)
                 /\ ~Nasam_eq(gen, copy)

\* a discard from the middle of a block that stopped on a block boundary
C28_Witness ==
    /\ op = "discard"
    /\ gpre.buffer_position \in 1 .. (BUFFERSIZE - 1)
    /\ DiscardEndsOnBoundary(gpre, arg)
    /\ gen.buffer_position = 0
    /\ ~Nasam_eq(gen, NextTimes(gpre, arg))

\* C29: big_jump with the step (k, 0, ..., 0) leaves the state operator+=(k) leaves,
\* for every k of the word range, and big_jump with the all-zero step leaves the
\* state as it was, before and after the jump by k.
C29_SkipAheadsAgree ==
    /\ (cpc = 1 /\ rpc \in {1, 3}) => ctr.state = ref.state
    /\ rpc = 2 => ref.state = stepB
    /\ rpc \in {1, 3} => ref.state = VecAddTimes(stepB, ref.increment, stepA[1])
    /\ ctr.increment = ref.increment

\* both skip-aheads done for the largest k from the all-ones state, the zero jump
\* taken after it
C29_Witness ==
    /\ cpc = 1
    /\ rpc = 3
    /\ stepA[1] = WORD_MAX
    /\ stepB = Limbs(COUNTERSIZE, MaxOf)
    /\ ctr.state # stepB

==========================================================================
